---- MODULE Spec2Model ----
(***************************************************************************)
(* State-machine model of femto's G-code compiler (PGMCompiler).           *)
(*                                                                         *)
(* Numbers: lengths, feeds and coordinates are integers counting 1e-6      *)
(* (mm or mm/s), the resolution of the default "{:.6f}" output and of the  *)
(* feed threshold 1e-6; a value that is not on that grid (a transformed    *)
(* coordinate) is a rational <<num, den>> until it is formatted.  Pauses   *)
(* count milliseconds.  Python's None is the empty tuple, a present value  *)
(* v is <<v>>.  An exception is the "err" field of the value an operation  *)
(* returns: what the operation did before raising is kept, as in Python.   *)
(***************************************************************************)
EXTENDS Integers, Sequences, FiniteSets, TLC

VARIABLES
    filename,          \* self.filename: None or <<name>>
    angle,             \* self.angle, kept in degrees (angle % 360)
    ind_rif,           \* self.ind_rif, a rational <<num, den>>
    output_digits,     \* self.output_digits
    instructions,      \* self._instructions
    shutter_on,        \* self._shutter_on
    num_for,           \* self._num_for
    num_repeat,        \* self._num_repeat
    total_dwell_time,  \* self._total_dwell_time (ms)
    loaded_files,      \* self._loaded_files
    file_out,          \* the file compile_pgm wrote last: [name, text]
    calls,             \* number of calls made on the compiler so far
    points_fed,        \* number of points handed to point_to_instruction so far
    last,              \* the last call: [op, word, M, err], its string and point arguments
    pre,               \* the compiler as it was when the last call started
    length,            \* TrenchColumn.length: None or <<length>>
    trench_list,       \* TrenchColumn._trench_list
    digs,              \* number of _dig calls made on the column so far
    dlast,             \* the last _dig call: [paths, remove, carved, logged, err]
    dpre,              \* the trench list as it was when the last _dig call started
    trench,            \* a Trench: [block, delta_floor, safe_inner_turns, floor_length, wall_length]
    gen,               \* the generator toolpath() returned last: [pc, n, i, polygon_list, yielded, err]
    runs,              \* traversals of toolpath so far: [started, completed]
    tpre,              \* the last step of the generator: [op, trench, gen] as they were before it
    img,               \* the image given to convert_image_to_path: [mode, data]
    raster             \* the call of convert_image_to_path: [pc, ii, row, shutter_state, data,
                       \* GCODE_array, err], row the place of the last row's first line

compiler_vars ==
    <<filename, angle, ind_rif, output_digits, instructions, shutter_on, num_for, num_repeat,
      total_dwell_time, loaded_files, file_out, calls, points_fed, last, pre>>

column_vars == <<length, trench_list, digs, dlast, dpre>>

planner_vars == <<trench, gen, runs, tpre>>

raster_vars == <<img, raster>>

vars == <<compiler_vars, column_vars, planner_vars, raster_vars>>

-----------------------------------------------------------------------------
(* Bounds of the model *)

MaxCalls == 2
MaxRow == 2
MaxPointCalls == 2
MaxPoints == 4
MaxNestCalls == 5
MaxConfigCalls == 2
MaxConfigRow == 1
MaxDigs == 2
MaxRuns == 2
MaxSerializeCalls == 4
MaxHeight == 2
MaxWidth == 3

-----------------------------------------------------------------------------
(* Program constants *)

long_pause == 250
short_pause == 150
DefaultDigits == 6
MicroDigits == 6
DefaultSpeedPos == 50

RECURSIVE Pow10(_)
Pow10(n) == IF n = 0 THEN 1 ELSE 10 * Pow10(n - 1)

MM == Pow10(MicroDigits)

None == <<>>
Some(v) == <<v>>

-----------------------------------------------------------------------------
(* Exceptions *)

NoErr == [type |-> "ok", msg |-> "", n |-> 0, name |-> ""]
AssertionError(msg, n, name) == [type |-> "AssertionError", msg |-> msg, n |-> n, name |-> name]
ValueError(msg) == [type |-> "ValueError", msg |-> msg, n |-> 0, name |-> ""]
AttributeError(msg) == [type |-> "AttributeError", msg |-> msg, n |-> 0, name |-> ""]

Raise(c, e) == [c EXCEPT !.err = e]
Ok(c) == c.err = NoErr

-----------------------------------------------------------------------------
(* Strings *)

Upper(s) ==
    CASE s = "on" -> "ON"
      [] s = "off" -> "OFF"
      [] s = "half" -> "HALF"
      [] s = "capable" -> "CAPABLE"
      [] s = "fire" -> "FIRE"
      [] s = "line1" -> "LINE1"
      [] OTHER -> s

EndsWithPgm(s) == s \in {"prog.pgm", "sub.pgm", "other.pgm", "prog.pgm.pgm"}

AddPgm(s) ==
    CASE s = "prog" -> "prog.pgm"
      [] s = "prog.pgm" -> "prog.pgm.pgm"
      [] s = "sub" -> "sub.pgm"
      [] OTHER -> s

Stem(s) ==
    CASE s = "prog.pgm" -> "prog"
      [] s = "sub.pgm" -> "sub"
      [] s = "other.pgm" -> "other"
      [] OTHER -> s

\* the methods the model uses of Python's str; str has no method "exist"
StrMethods == {"upper", "endswith", "format", "join"}

-----------------------------------------------------------------------------
(* Instructions: one record per appended list element *)

Instr(op, words, n, args) == [op |-> op, words |-> words, n |-> n, args |-> args]

PsoOn == Instr("PSOCONTROL X", <<"ON">>, 0, <<>>)
PsoOff == Instr("PSOCONTROL X", <<"OFF">>, 0, <<>>)
Dwell(pause) == Instr("DWELL", <<>>, pause, <<>>)
Linear(args) == Instr("LINEAR", <<>>, 0, args)

\* list.insert(0, i) in place of list.append(i)
append_in_front(c, i) == [c EXCEPT !.instructions = <<i>> \o @]

append(c, i) == [c EXCEPT !.instructions = Append(@, i)]

-----------------------------------------------------------------------------
(* Numbers and formatting *)

Abs(n) == IF n < 0 THEN -n ELSE n

Rat(n) == <<n, 1>>

\* the integer nearest to num/den (den > 0), ties to even
RoundDiv(num, den) ==
    LET q == num \div den
        r == num % den
    IN  IF 2 * r < den THEN q
        ELSE IF 2 * r > den THEN q + 1
        ELSE IF q % 2 = 0 THEN q ELSE q + 1

\* "{:.{digits}f}": the value rounded to digits decimals (digits <= MicroDigits),
\* on the 1e-6 grid
FormatNum(v, digits) ==
    LET step == Pow10(MicroDigits - digits)
    IN  RoundDiv(v[1], v[2] * step) * step

format_args(c, x, y, z, f) ==
    LET ax == IF x /= None THEN << <<"X", FormatNum(x[1], c.output_digits)>> >> ELSE <<>>
        ay == IF y /= None THEN << <<"Y", FormatNum(y[1], c.output_digits)>> >> ELSE <<>>
        az == IF z /= None THEN << <<"Z", FormatNum(z[1], c.output_digits)>> >> ELSE <<>>
    IN  IF f /= None /\ f[1][1] < f[1][2]
        THEN [err |-> ValueError("Try to move with F = 0.0 mm/s."), args |-> <<>>]
        ELSE [err |-> NoErr,
              args |-> ax \o ay \o az \o
                       (IF f /= None THEN << <<"F", FormatNum(f[1], c.output_digits)>> >> ELSE <<>>)]

-----------------------------------------------------------------------------
(* Coordinate transform *)

Cos(deg) == CASE deg = 0 -> 1 [] deg = 90 -> 0 [] deg = 180 -> -1 [] deg = 270 -> 0
Sin(deg) == CASE deg = 0 -> 0 [] deg = 90 -> 1 [] deg = 180 -> 0 [] deg = 270 -> -1

RMul(a, b) == <<a[1] * b[1], a[2] * b[2]>>
RAdd(a, b) == <<a[1] * b[2] + b[1] * a[2], a[2] * b[2]>>
RNorm(a) == IF a[2] < 0 THEN <<-a[1], -a[2]>> ELSE a

\* a rational in lowest terms, denominator positive
RECURSIVE Gcd(_, _)
Gcd(a, b) == IF b = 0 THEN a ELSE Gcd(b, a % b)

RReduce(a) ==
    LET n == RNorm(a)
        g == Gcd(Abs(n[1]), n[2])
    IN  <<n[1] \div g, n[2] \div g>>

\* np.dot of two 3x3 matrices
MatMul(A, B) ==
    [i \in 1..3 |-> [j \in 1..3 |->
        RReduce(RAdd(RAdd(RMul(A[i][1], B[1][j]), RMul(A[i][2], B[2][j])),
                     RMul(A[i][3], B[3][j])))]]

\* the rotation matrix RM
RM(c) ==
    << <<Rat(Cos(c.angle)), Rat(-Sin(c.angle)), Rat(0)>>,
       <<Rat(Sin(c.angle)), Rat(Cos(c.angle)), Rat(0)>>,
       <<Rat(0), Rat(0), Rat(1)>> >>

\* the homothety SM with ind_rif in place of 1 / ind_rif
SM_multiplies(c) ==
    << <<Rat(1), Rat(0), Rat(0)>>,
       <<Rat(0), Rat(1), Rat(0)>>,
       <<Rat(0), Rat(0), c.ind_rif>> >>

\* the homothety matrix SM
SM(c) ==
    << <<Rat(1), Rat(0), Rat(0)>>,
       <<Rat(0), Rat(1), Rat(0)>>,
       <<Rat(0), Rat(0), RNorm(<<c.ind_rif[2], c.ind_rif[1]>>)>> >>

\* TM = SM * RM
compute_t_matrix(c) == MatMul(SM(c), RM(c))

Dot3(row, p) ==
    RAdd(RAdd(RMul(row[1], Rat(p[1])), RMul(row[2], Rat(p[2]))), RMul(row[3], Rat(p[3])))

\* c_rot for one point <<x, y, z, f, s>>
Transform(c, p) ==
    LET T == compute_t_matrix(c)
    IN  <<Dot3(T[1], p), Dot3(T[2], p), Dot3(T[3], p)>>

-----------------------------------------------------------------------------
(* The compiler's operations, as functions from the compiler to the compiler *)

header(c, fabbrication_line) ==
    IF Upper(fabbrication_line) \notin {"CAPABLE", "FIRE"}
    THEN Raise(c, AssertionError("Specified fabrication line is neither CAPABLE nor FIRE.",
                                 0, Upper(fabbrication_line)))
    ELSE IF Upper(fabbrication_line) = "CAPABLE"
         THEN append(c, Instr("HEADER", <<"header_capable.txt">>, 0, <<>>))
         ELSE append(c, Instr("HEADER", <<"header_fire.txt">>, 0, <<>>))

dvar(c, variables) == append(c, Instr("DVAR", variables, 0, <<>>))

comment(c, comstring) == append(c, Instr(";", <<comstring>>, 0, <<>>))

\* shutter() writing the instruction without recording the new state
shutter_keeps_flag(c, state) ==
    IF Upper(state) \notin {"ON", "OFF"}
    THEN Raise(c, AssertionError("Specified shutter state is neither ON nor OFF.",
                                 0, Upper(state)))
    ELSE IF Upper(state) = "ON" /\ c.shutter_on = FALSE
         THEN append(c, PsoOn)
         ELSE IF Upper(state) = "OFF" /\ c.shutter_on = TRUE
              THEN append([c EXCEPT !.shutter_on = FALSE], PsoOff)
              ELSE c

\* shutter without the comparison to the tracked state
shutter_no_dedup(c, state) ==
    IF Upper(state) \notin {"ON", "OFF"}
    THEN Raise(c, AssertionError("Specified shutter state is neither ON nor OFF.",
                                 0, Upper(state)))
    ELSE IF Upper(state) = "ON"
         THEN append([c EXCEPT !.shutter_on = TRUE], PsoOn)
         ELSE append([c EXCEPT !.shutter_on = FALSE], PsoOff)

shutter(c, state) ==
    IF Upper(state) \notin {"ON", "OFF"}
    THEN Raise(c, AssertionError("Specified shutter state is neither ON nor OFF.",
                                 0, Upper(state)))
    ELSE IF Upper(state) = "ON" /\ c.shutter_on = FALSE
         THEN append([c EXCEPT !.shutter_on = TRUE], PsoOn)
         ELSE IF Upper(state) = "OFF" /\ c.shutter_on = TRUE
              THEN append([c EXCEPT !.shutter_on = FALSE], PsoOff)
              ELSE c

\* dwell that does not add the pause to the total
dwell_untracked(c, pause) == append(c, Dwell(pause))

dwell(c, pause) ==
    [append(c, Dwell(pause)) EXCEPT !.total_dwell_time = @ + pause]

\* set_home without the test of the shutter
set_home_any_shutter(c, home_pos) ==
    IF Len(home_pos) /= 3
    THEN Raise(c, AssertionError("Given final position is not valid.", Len(home_pos), ""))
    ELSE LET a == format_args(c, home_pos[1], home_pos[2], home_pos[3], None)
         IN  IF a.err /= NoErr THEN Raise(c, a.err)
             ELSE append(c, Instr("G92", <<>>, 0, a.args))

set_home(c, home_pos) ==
    IF c.shutter_on /= FALSE
    THEN Raise(c, AssertionError("Try to move with shutter OPEN.", 0, ""))
    ELSE IF Len(home_pos) /= 3
         THEN Raise(c, AssertionError("Given final position is not valid.", Len(home_pos), ""))
         ELSE LET a == format_args(c, home_pos[1], home_pos[2], home_pos[3], None)
              IN  IF a.err /= NoErr THEN Raise(c, a.err)
                  ELSE append(c, Instr("G92", <<>>, 0, a.args))

\* move_to positioning without closing the shutter first
move_to_leaves_open(c, position, speed_pos) ==
    IF Len(position) /= 3
    THEN Raise(c, AssertionError("Given final position is not valid.", Len(position), ""))
    ELSE LET a == format_args(c, position[1], position[2], position[3], speed_pos)
         IN  IF a.err /= NoErr THEN Raise(c, a.err)
             ELSE dwell(append(c, Linear(a.args)), long_pause)

\* move_to that asserts the shutter is off, as set_home does
move_to_asserts_off(c, position, speed_pos) ==
    IF Len(position) /= 3
    THEN Raise(c, AssertionError("Given final position is not valid.", Len(position), ""))
    ELSE IF c.shutter_on /= FALSE
         THEN Raise(c, AssertionError("Try to move with shutter OPEN.", 0, ""))
         ELSE LET a == format_args(c, position[1], position[2], position[3], speed_pos)
              IN  IF a.err /= NoErr THEN Raise(c, a.err)
                  ELSE dwell(append(c, Linear(a.args)), long_pause)

move_to(c, position, speed_pos) ==
    IF Len(position) /= 3
    THEN Raise(c, AssertionError("Given final position is not valid.", Len(position), ""))
    ELSE LET c1 == IF c.shutter_on = TRUE THEN shutter(c, "OFF") ELSE c
             a == format_args(c, position[1], position[2], position[3], speed_pos)
         IN  IF a.err /= NoErr THEN Raise(c1, a.err)
             ELSE dwell(append(c1, Linear(a.args)), long_pause)

homing(c) ==
    move_to(comment(c, "HOMING"), <<Some(Rat(0)), Some(Rat(0)), Some(Rat(0))>>,
            Some(Rat(DefaultSpeedPos * MM)))

for_loop(c, var, num) ==
    [append(c, Instr("FOR", <<var>>, num - 1, <<>>)) EXCEPT !.num_for = @ + 1]

\* end_for that never takes the counter below 0
end_for_clamped(c, var) ==
    [append(c, Instr("NEXT", <<var>>, 0, <<>>))
        EXCEPT !.num_for = IF @ > 0 THEN @ - 1 ELSE 0]

end_for(c, var) ==
    [append(c, Instr("NEXT", <<var>>, 0, <<>>)) EXCEPT !.num_for = @ - 1]

rpt(c, num) ==
    [append(c, Instr("REPEAT", <<>>, num, <<>>)) EXCEPT !.num_repeat = @ + 1]

endrpt(c) ==
    [append(c, Instr("ENDREPEAT", <<>>, 0, <<>>)) EXCEPT !.num_repeat = @ - 1]

tic(c) == append(c, Instr("MSGDISPLAY", <<"INIZIO #TS">>, 1, <<>>))

toc(c) ==
    append(append(append(c,
        Instr("MSGDISPLAY", <<"FINE   #TS">>, 1, <<>>)),
        Instr("MSGDISPLAY", <<"---------------------">>, 1, <<>>)),
        Instr("MSGDISPLAY", <<" ">>, 1, <<>>))

\* returns [err, file]; filename is a str, filepath None or <<folder>>
parse_filepath(fname, filepath, extension) ==
    IF extension /= None /\ ~EndsWithPgm(fname)
    THEN [err |-> AssertionError("Given filename has wrong extension.", 0, fname),
          file |-> fname]
    ELSE LET file == fname   \* Path(filepath) / filename names the same program
         IN  \* assert filename.exist(): evaluated on the str filename
             IF "exist" \notin StrMethods
             THEN [err |-> AttributeError("'str' object has no attribute 'exist'"),
                   file |-> file]
             ELSE [err |-> NoErr, file |-> file]

load(c, fname, filepath) ==
    LET r == parse_filepath(fname, filepath, None)
    IN  IF r.err /= NoErr THEN Raise(c, r.err)
        ELSE [append(c, Instr("PROGRAM 0 LOAD", <<r.file>>, 0, <<>>))
                 EXCEPT !.loaded_files = Append(@, Stem(r.file))]

farcall(c, fname) ==
    LET r == parse_filepath(fname, None, None)
    IN  IF r.err /= NoErr THEN Raise(c, r.err)
        ELSE IF \A i \in 1..Len(c.loaded_files) : c.loaded_files[i] /= Stem(r.file)
             THEN Raise(c, AssertionError("not loaded. Cannot load it.", 0, r.file))
             ELSE append(append(c, Instr("FARCALL", <<r.file>>, 0, <<>>)),
                         Instr("PROGRAM 0 STOP", <<>>, 0, <<>>))

\* the loop's turn with the move also emitted while the shutter closes
point_step_moves_on_close(c, p) ==
    LET t == Transform(c, p)
        a == format_args(c, Some(t[1]), Some(t[2]), Some(t[3]), Some(Rat(p[4])))
    IN  IF a.err /= NoErr THEN Raise(c, a.err)
        ELSE IF p[5] = 0 /\ c.shutter_on = FALSE
             THEN dwell(append(c, Linear(a.args)), long_pause)
             ELSE IF p[5] = 0 /\ c.shutter_on = TRUE
                  THEN dwell(append(shutter(c, "OFF"), Linear(a.args)), short_pause)
                  ELSE IF p[5] = 1 /\ c.shutter_on = FALSE
                       THEN append(shutter(c, "ON"), Linear(a.args))
                       ELSE append(c, Linear(a.args))

\* the loop's turn with the shutter opened at every point with bit 1
point_step_opens_each(c, p) ==
    LET t == Transform(c, p)
        a == format_args(c, Some(t[1]), Some(t[2]), Some(t[3]), Some(Rat(p[4])))
    IN  IF a.err /= NoErr THEN Raise(c, a.err)
        ELSE IF p[5] = 0 /\ c.shutter_on = FALSE
             THEN dwell(append(c, Linear(a.args)), long_pause)
             ELSE IF p[5] = 0 /\ c.shutter_on = TRUE
                  THEN dwell(shutter(c, "OFF"), short_pause)
                  ELSE append(append([c EXCEPT !.shutter_on = TRUE], PsoOn), Linear(a.args))

\* the loop's turn with no dwell after a move with the shutter off
point_step_no_settle(c, p) ==
    LET t == Transform(c, p)
        a == format_args(c, Some(t[1]), Some(t[2]), Some(t[3]), Some(Rat(p[4])))
    IN  IF a.err /= NoErr THEN Raise(c, a.err)
        ELSE IF p[5] = 0 /\ c.shutter_on = FALSE
             THEN append(c, Linear(a.args))
             ELSE IF p[5] = 0 /\ c.shutter_on = TRUE
                  THEN dwell(shutter(c, "OFF"), short_pause)
                  ELSE IF p[5] = 1 /\ c.shutter_on = FALSE
                       THEN append(shutter(c, "ON"), Linear(a.args))
                       ELSE append(c, Linear(a.args))

\* one turn of the loop over the points: p = <<x, y, z, f, s>>
point_step(c, p) ==
    LET t == Transform(c, p)
        a == format_args(c, Some(t[1]), Some(t[2]), Some(t[3]), Some(Rat(p[4])))
    IN  IF a.err /= NoErr THEN Raise(c, a.err)
        ELSE IF p[5] = 0 /\ c.shutter_on = FALSE
             THEN dwell(append(c, Linear(a.args)), long_pause)
             ELSE IF p[5] = 0 /\ c.shutter_on = TRUE
                  THEN dwell(shutter(c, "OFF"), short_pause)
                  ELSE IF p[5] = 1 /\ c.shutter_on = FALSE
                       THEN append(shutter(c, "ON"), Linear(a.args))
                       ELSE append(c, Linear(a.args))

RECURSIVE pti_loop(_, _, _)
pti_loop(c, M, i) ==
    IF i > Len(M) THEN c
    ELSE LET r == point_step(c, M[i])
         IN  IF r.err /= NoErr THEN r ELSE pti_loop(r, M, i + 1)

point_to_instruction(c, M) == pti_loop(c, M, 1)

\* compile_pgm with the FOR counter checked before the REPEAT counter
compile_pgm_for_first(c) ==
    IF c.filename = None
    THEN Raise(c, AssertionError("No filename given.", 0, ""))
    ELSE IF c.num_for /= 0
    THEN Raise(c, AssertionError(
             IF Abs(c.num_for) /= 1 THEN "Missing instructions" ELSE "Missing instruction",
             Abs(c.num_for),
             IF c.num_for > 0 THEN "NEXT" ELSE "FOR"))
    ELSE IF c.num_repeat /= 0
    THEN Raise(c, AssertionError(
             IF Abs(c.num_repeat) /= 1 THEN "Missing instructions" ELSE "Missing instruction",
             Abs(c.num_repeat),
             IF c.num_repeat > 0 THEN "END REPEAT" ELSE "REPEAT"))
    ELSE LET name == IF EndsWithPgm(c.filename[1]) THEN c.filename[1]
                     ELSE AddPgm(c.filename[1])
         IN  [c EXCEPT !.filename = Some(name),
                       !.file_out = [name |-> name, text |-> c.instructions]]

\* compile_pgm appending the extension whatever the filename ends with
compile_pgm_appends_again(c) ==
    IF c.filename = None
    THEN Raise(c, AssertionError("No filename given.", 0, ""))
    ELSE IF c.num_repeat /= 0
    THEN Raise(c, AssertionError(
             IF Abs(c.num_repeat) /= 1 THEN "Missing instructions" ELSE "Missing instruction",
             Abs(c.num_repeat),
             IF c.num_repeat > 0 THEN "END REPEAT" ELSE "REPEAT"))
    ELSE IF c.num_for /= 0
    THEN Raise(c, AssertionError(
             IF Abs(c.num_for) /= 1 THEN "Missing instructions" ELSE "Missing instruction",
             Abs(c.num_for),
             IF c.num_for > 0 THEN "NEXT" ELSE "FOR"))
    ELSE LET name == AddPgm(c.filename[1])
         IN  [c EXCEPT !.filename = Some(name),
                       !.file_out = [name |-> name, text |-> c.instructions]]

compile_pgm(c) ==
    IF c.filename = None
    THEN Raise(c, AssertionError("No filename given.", 0, ""))
    ELSE IF c.num_repeat /= 0
    THEN Raise(c, AssertionError(
             IF Abs(c.num_repeat) /= 1 THEN "Missing instructions" ELSE "Missing instruction",
             Abs(c.num_repeat),
             IF c.num_repeat > 0 THEN "END REPEAT" ELSE "REPEAT"))
    ELSE IF c.num_for /= 0
    THEN Raise(c, AssertionError(
             IF Abs(c.num_for) /= 1 THEN "Missing instructions" ELSE "Missing instruction",
             Abs(c.num_for),
             IF c.num_for > 0 THEN "NEXT" ELSE "FOR"))
    ELSE LET name == IF EndsWithPgm(c.filename[1]) THEN c.filename[1]
                     ELSE AddPgm(c.filename[1])
         IN  [c EXCEPT !.filename = Some(name),
                       !.file_out = [name |-> name, text |-> c.instructions]]

-----------------------------------------------------------------------------
(* Trench columns.  Lengths count micrometres.  The geometry engine is     *)
(* modelled on the blocks a column is cut into by mold paths that cross it *)
(* from its left border to its right border: a block is the region between *)
(* two consecutive paths, a quadrilateral with two vertical sides.         *)

bridge == 26
beam_waist == 4
round_corner == 10
x_center == 0
y_min == 0
y_max == 200

IndexError == [type |-> "IndexError", msg |-> "list assignment index out of range",
               n |-> 0, name |-> ""]

Min2(a, b) == IF a < b THEN a ELSE b
Max2(a, b) == IF a > b THEN a ELSE b

\* a polygon with the vertices (xl, ll), (xr, lr), (xr, hr), (xl, hl), counter-clockwise,
\* whose ring starts at vertex number start
Quad(xl, xr, ll, lr, hr, hl, start) ==
    [xl |-> xl, xr |-> xr, ll |-> ll, lr |-> lr, hr |-> hr, hl |-> hl, start |-> start]

\* block.exterior.coords, without the closing vertex
Ring(p) ==
    LET v == << <<p.xl, p.ll>>, <<p.xr, p.lr>>, <<p.xr, p.hr>>, <<p.xl, p.hl>> >>
    IN  [k \in 1..4 |-> v[((p.start + k - 2) % 4) + 1]]

\* a geometry: a Polygon (no part when empty), a MultiPolygon or a GeometryCollection
Geometry(type, geoms) == [type |-> type, geoms |-> geoms]

EmptyPolygon == Geometry("Polygon", <<>>)

\* geometry.box(minx, miny, maxx, maxy): its ring starts at (maxx, miny)
box(minx, miny, maxx, maxy) ==
    Geometry("Polygon", <<Quad(minx, maxx, miny, miny, maxy, maxy, 2)>>)

rect(c) ==
    IF c.length = None THEN EmptyPolygon
    ELSE box(x_center - c.length[1] \div 2, y_min, x_center + c.length[1] \div 2, y_max)

adj_bridge == bridge \div 2 + beam_waist + round_corner

\* Trench(block): the trench of a block; id tells the objects apart
Trench(block, id) == [block |-> block, id |-> id]

yborder(t) == [k \in 1..4 |-> Ring(t.block)[k][2]]

\* block.bounds[1]
ymin(t) == Min2(t.block.ll, t.block.lr)

\* Trench.__lt__
TrenchLt(t, u) == yborder(t)[1] < yborder(u)[1]

Front(s) == SubSeq(s, 1, Len(s) - 1)
Last(s) == s[Len(s)]

\* sorted(blocks, key=Trench): stable, by <
RECURSIVE SortedInsert(_, _)
SortedInsert(s, e) ==
    IF s = <<>> THEN <<e>>
    ELSE IF TrenchLt(Trench(e, 0), Trench(Last(s), 0))
         THEN Append(SortedInsert(Front(s), e), Last(s))
         ELSE Append(s, e)

RECURSIVE sorted(_)
sorted(s) == IF s = <<>> THEN <<>> ELSE SortedInsert(sorted(Front(s)), Last(s))

\* sorted(remove, reverse=True)
RECURSIVE sorted_reverse(_)
sorted_reverse(s) ==
    IF s = <<>> THEN <<>>
    ELSE LET m == CHOOSE i \in 1..Len(s) : \A j \in 1..Len(s) : s[j] <= s[i]
         IN  <<s[m]>> \o sorted_reverse(SubSeq(s, 1, m - 1) \o SubSeq(s, m + 1, Len(s)))

\* the mold paths, from the lowest up; a path <<a, b>> crosses the left border of the
\* column at height a and the right border at height b
RECURSIVE PathsUp(_)
PathsUp(paths) ==
    IF paths = {} THEN <<>>
    ELSE LET p == CHOOSE q \in paths : \A o \in paths : q[1] <= o[1]
         IN  <<p>> \o PathsUp(paths \ {p})

Clamp(y) == Max2(y_min, Min2(y_max, y))

\* rect.difference(LineString(coords).buffer(adj_bridge)) for every path: the parts of
\* the rectangle between consecutive dilated paths that are not closed
Blocks(R, paths) ==
    LET up == PathsUp(paths)
        n == Len(up)
        r == R.geoms[1]
        gap(k) ==
            Quad(r.xl, r.xr,
                 IF k = 0 THEN y_min ELSE Clamp(up[k][1] + adj_bridge),
                 IF k = 0 THEN y_min ELSE Clamp(up[k][2] + adj_bridge),
                 IF k = n THEN y_max ELSE Clamp(up[k + 1][2] - adj_bridge),
                 IF k = n THEN y_max ELSE Clamp(up[k + 1][1] - adj_bridge),
                 1)
        all == [k \in 1..(n + 1) |-> gap(k - 1)]
    IN  SelectSeq(all, LAMBDA q : q.ll < q.hl /\ q.lr < q.hr)

\* the same geometry with the ring of part k starting at vertex starts[k]
StartingAt(blocks, starts) ==
    [k \in 1..Len(blocks) |-> [blocks[k] EXCEPT !.start = starts[k]]]

\* what the engine returns for the difference: the rectangle itself when there is no
\* path; else the parts, as a MultiPolygon when several, a Polygon when one, and an empty
\* geometry of type emptyType when none is left
difference(R, paths, starts, emptyType) ==
    IF R.geoms = <<>> THEN Geometry(emptyType, <<>>)
    ELSE IF paths = {} THEN R
    ELSE LET b == Blocks(R, paths)
         IN  IF b = <<>> THEN Geometry(emptyType, <<>>)
             ELSE IF Len(b) = 1 THEN Geometry("Polygon", StartingAt(b, starts))
             ELSE Geometry("MultiPolygon", StartingAt(b, starts))

Shape(g) == {[q EXCEPT !.start = 1] : q \in {g.geoms[k] : k \in 1..Len(g.geoms)}}

\* almost_equal(polygon, other, tol): the two cover the same region
almost_equal(g, h) == Shape(g) = Shape(h)

\* block.buffer(round_corner): every side moved outwards by the radius
buffer(q, radius) ==
    [q EXCEPT !.xl = @ - radius, !.xr = @ + radius, !.ll = @ - radius, !.lr = @ - radius,
              !.hr = @ + radius, !.hl = @ + radius]

\* normalize_polygon: the ring starts at the lexicographically smallest vertex
normalize_polygon(q) ==
    LET v == Ring([q EXCEPT !.start = 1])
        lexLe(a, b) == a[1] < b[1] \/ (a[1] = b[1] /\ a[2] <= b[2])
    IN  [q EXCEPT !.start = CHOOSE k \in 1..4 : \A j \in 1..4 : lexLe(v[k], v[j])]

\* the loop of _dig that appends one Trench per block
RECURSIVE append_trenches(_, _, _)
append_trenches(c, blocks, k) ==
    IF k > Len(blocks) THEN c
    ELSE append_trenches(
             [c EXCEPT !.trench_list =
                 Append(@, Trench(normalize_polygon(buffer(blocks[k], round_corner)),
                                  <<c.digs + 1, k>>))],
             blocks, k + 1)

\* the loop of _dig that deletes the indices to remove (0-based), the highest first
RECURSIVE delete_indices(_, _)
delete_indices(c, idx) ==
    IF idx = <<>> THEN c
    ELSE IF Head(idx) >= Len(c.trench_list) THEN Raise(c, IndexError)
    ELSE delete_indices(
             [c EXCEPT !.trench_list =
                 SubSeq(@, 1, Head(idx)) \o SubSeq(@, Head(idx) + 2, Len(@))],
             Tail(idx))

\* _dig(coords_list, remove); starts and emptyType are the engine's choices
dig(c, paths, remove, starts, emptyType) ==
    LET trench_blocks == difference(rect(c), paths, starts, emptyType)
    IN  IF almost_equal(trench_blocks, rect(c))
        THEN [c EXCEPT !.logged = TRUE]
        ELSE IF trench_blocks.type = "Polygon"
             THEN Raise(c, AttributeError("'Polygon' object has no attribute 'geoms'"))
             ELSE delete_indices(append_trenches(c, sorted(trench_blocks.geoms), 1),
                                 sorted_reverse(remove))

-----------------------------------------------------------------------------
(* The trench toolpath planner (Trench.toolpath).  Lengths count           *)
(* micrometres.  A polygon is a rectangle (convex), a dumbbell -- two      *)
(* rectangular lobes a and b joined along x by a neck narrower than both   *)
(* -- or the empty polygon; all of them are valid geometries.              *)

DefaultDeltaFloor == 1
DefaultTurns == 5

PopIndexError == [type |-> "IndexError", msg |-> "pop from empty list", n |-> 0, name |-> ""]

NoSide == <<0, 0>>
EmptyShape == [kind |-> "empty", a |-> NoSide, b |-> NoSide, neck |-> 0, len |-> 0]
Rect(w, h) == [kind |-> "rect", a |-> <<w, h>>, b |-> NoSide, neck |-> 0, len |-> 0]
Dumbbell(a, b, neck, len) == [kind |-> "dumbbell", a |-> a, b |-> b, neck |-> neck, len |-> len]

is_empty(p) == p.kind = "empty"

\* polygon.length: the perimeter
PolyLength(p) ==
    IF p.kind = "empty" THEN 0
    ELSE IF p.kind = "rect" THEN 2 * (p.a[1] + p.a[2])
    ELSE 2 * (p.a[1] + p.a[2]) + 2 * (p.b[1] + p.b[2]) + 2 * p.len - 2 * p.neck

Shrink(side, d) == <<side[1] - 2 * d, side[2] - 2 * d>>
Survives(side) == side[1] > 0 /\ side[2] > 0
Lobe(side) == IF Survives(side) THEN <<Rect(side[1], side[2])>> ELSE <<>>

\* shape.buffer(-d), d >= 0: the parts of the eroded shape, none when nothing is left,
\* two when the neck of a dumbbell closes
Erode(p, d) ==
    IF p.kind = "empty" THEN <<>>
    ELSE IF p.kind = "rect" THEN Lobe(Shrink(p.a, d))
    ELSE IF p.neck - 2 * d > 0
         THEN <<Dumbbell(Shrink(p.a, d), Shrink(p.b, d), p.neck - 2 * d, p.len + 2 * d)>>
         ELSE Lobe(Shrink(p.a, d)) \o Lobe(Shrink(p.b, d))

\* Trench.buffer_polygon(shape, offset) for offset = -d
buffer_polygon(shape, d) ==
    LET buff_polygon == Erode(shape, d)
    IN  IF Len(buff_polygon) >= 2 THEN buff_polygon
        ELSE IF buff_polygon = <<>> THEN <<EmptyShape>>
        ELSE buff_polygon

\* block.contains(block.convex_hull.buffer(-0.01 * delta_floor))
IsConvex(p) == p.kind = "rect"

\* the shorter side of the block's minimum rotated rectangle
d_ext(p) == Min2(p.a[1] + p.len + p.b[1], Max2(p.a[2], p.b[2]))

Area(side) == side[1] * side[2]

\* the shorter side of the largest rectangle inside a polygon: in a dumbbell a lobe, or
\* the strip as high as the neck that runs through both lobes
d_int(p) ==
    LET strip == <<p.a[1] + p.len + p.b[1], p.neck>>
        big == IF Area(p.a) >= Area(p.b) THEN p.a ELSE p.b
        best == IF Area(strip) > Area(big) THEN strip ELSE big
    IN  IF p.kind = "rect" THEN Min2(p.a[1], p.a[2]) ELSE Min2(best[1], best[2])

\* num_insets counting one turn more than safe_inner_turns
num_insets_one_more(t) == [value |-> t.safe_inner_turns + 1, err |-> NoErr]

\* Trench.num_insets: [value, err]
num_insets(t) ==
    IF IsConvex(t.block) THEN [value |-> t.safe_inner_turns, err |-> NoErr]
    ELSE LET inner == Erode(t.block, 2 * t.delta_floor)
         IN  IF Len(inner) = 1
             THEN [value |-> ((d_ext(t.block) - d_int(inner[1])) \div (2 * t.delta_floor))
                                + t.safe_inner_turns,
                   err |-> NoErr]
             ELSE IF Len(inner) >= 2
             THEN [value |-> 0,
                   err |-> AttributeError("'MultiPolygon' object has no attribute 'exterior'")]
             ELSE [value |-> 0, err |-> ValueError("no interior rectangle in an empty ring")]

\* Trench(block, delta_floor, safe_inner_turns)
NewTrench(block, delta, turns) ==
    [block |-> block, delta_floor |-> delta, safe_inner_turns |-> turns,
     floor_length |-> 0, wall_length |-> 0]

\* a generator before its first step / a generator object in general
Generator(pc, n, polygon_list) ==
    [pc |-> pc, n |-> n, i |-> 0, h |-> 0, polygon_list |-> polygon_list,
     yielded |-> <<>>, err |-> NoErr]

Contour(kind, poly) == [kind |-> kind, poly |-> poly]

\* a toolpath() that starts by resetting the floor length
toolpath_begin_resetting(t) ==
    LET w == [t EXCEPT !.wall_length = PolyLength(t.block), !.floor_length = 0]
        n == num_insets(w)
    IN  [trench |-> w,
         gen |-> IF n.err = NoErr
                 THEN Generator("running", n.value, <<w.block>>)
                 ELSE Raise(Generator("raised", 0, <<w.block>>), n.err)]

\* toolpath() up to the loop: the wall length, the queue and range(self.num_insets)
toolpath_begin(t) ==
    LET w == [t EXCEPT !.wall_length = PolyLength(t.block)]
        n == num_insets(w)
    IN  [trench |-> w,
         gen |-> IF n.err = NoErr
                 THEN Generator("running", n.value, <<w.block>>)
                 ELSE Raise(Generator("raised", 0, <<w.block>>), n.err)]

\* an iteration of the inset loop that takes the polygon queued last
toolpath_inset_lifo(t, g) ==
    IF g.polygon_list = <<>>
    THEN [trench |-> t, gen |-> Raise([g EXCEPT !.pc = "raised"], PopIndexError)]
    ELSE LET current_poly == Last(g.polygon_list)
             popped == [g EXCEPT !.polygon_list = Front(@), !.i = @ + 1]
         IN  IF is_empty(current_poly)
             THEN [trench |-> t, gen |-> popped]
             ELSE [trench |-> [t EXCEPT !.floor_length = @ + PolyLength(current_poly)],
                   gen |-> [popped EXCEPT
                              !.polygon_list = @ \o buffer_polygon(current_poly,
                                                                   Abs(t.delta_floor)),
                              !.yielded = Append(@, Contour("inset", current_poly))]]

\* one iteration of the inset loop
toolpath_inset(t, g) ==
    IF g.polygon_list = <<>>
    THEN [trench |-> t, gen |-> Raise([g EXCEPT !.pc = "raised"], PopIndexError)]
    ELSE LET current_poly == Head(g.polygon_list)
             popped == [g EXCEPT !.polygon_list = Tail(@), !.i = @ + 1]
         IN  IF is_empty(current_poly)
             THEN [trench |-> t, gen |-> popped]
             ELSE [trench |-> [t EXCEPT !.floor_length = @ + PolyLength(current_poly)],
                   gen |-> [popped EXCEPT
                              !.polygon_list = @ \o buffer_polygon(current_poly,
                                                                   Abs(t.delta_floor)),
                              !.yielded = Append(@, Contour("inset", current_poly))]]

\* one iteration of the hatch loop: zigzag(poly.buffer(1.05 * delta_floor)); emptyType is
\* the type the engine gives the empty intersection of an empty polygon with the mask
toolpath_hatch(t, g, emptyType) ==
    LET poly == g.polygon_list[g.h + 1]
    IN  IF is_empty(poly) /\ emptyType = "LineString"
        THEN [trench |-> t,
              gen |-> Raise([g EXCEPT !.pc = "raised"],
                            AttributeError("'LineString' object has no attribute 'geoms'"))]
        ELSE [trench |-> t,
              gen |-> [g EXCEPT !.h = @ + 1, !.yielded = Append(@, Contour("hatch", poly))]]

\* the end of the generator
toolpath_end(t, g) == [trench |-> t, gen |-> [g EXCEPT !.pc = "done"]]

-----------------------------------------------------------------------------
(* RasterImage.convert_image_to_path.  Lengths count micrometres; a pixel  *)
(* of the image is a grey level, a pixel of the black-and-white data is 0  *)
(* (black, False) or 1 (white, True); feeds are named after the attribute  *)
(* they are read from.                                                     *)

px_to_mm == 10

UnboundLocalError ==
    [type |-> "UnboundLocalError",
     msg |-> "local variable 'img_BW' referenced before assignment", n |-> 0,
     name |-> "img_BW"]

\* img.convert('1', dither=None): the threshold at half of the scale
convert(data) ==
    [r \in 1..Len(data) |-> [j \in 1..Len(data[r]) |-> IF data[r][j] >= 128 THEN 1 ELSE 0]]

\* pixel_line_shifted
pixel_line_shifted(pixel_line) ==
    [j \in 1..Len(pixel_line) |-> IF j = 1 THEN 0 ELSE pixel_line[j - 1]]

\* shutter_switch_array = pixel_line - pixel_line_shifted
shutter_switch_array(pixel_line) ==
    [j \in 1..Len(pixel_line) |-> pixel_line[j] - pixel_line_shifted(pixel_line)[j]]

\* a row of GCODE_array: its columns 0, 1, 3 and 4
GcodeLine(x, y, f, s) == [x |-> x, y |-> y, f |-> f, s |-> s]

\* the loop over jj, from jj up to stop (indices from 0, as in the code)
RECURSIVE walk(_, _, _, _, _)
walk(switch, ii, jj, stop, st) ==
    IF jj > stop THEN st
    ELSE IF switch[jj + 1] = 1
         THEN walk(switch, ii, jj + 1, stop,
                   [GCODE_array |-> Append(st.GCODE_array,
                                           GcodeLine(jj * px_to_mm, ii * px_to_mm, st.speed,
                                                     st.shutter_state)),
                    shutter_state |-> 1, speed |-> "speed"])
    ELSE IF switch[jj + 1] = -1
         THEN walk(switch, ii, jj + 1, stop,
                   [GCODE_array |-> Append(st.GCODE_array,
                                           GcodeLine(jj * px_to_mm, ii * px_to_mm, st.speed,
                                                     st.shutter_state)),
                    shutter_state |-> 0, speed |-> "2*speed"])
    ELSE walk(switch, ii, jj + 1, stop, st)

\* the body of the loop over the rows without the final black pixel
raster_row_no_final_black(r, data) ==
    LET ii == r.ii
        pixel_line == data[ii + 1]
        switch == shutter_switch_array(pixel_line)
        moves == << GcodeLine(-1 * px_to_mm, (ii - 1) * px_to_mm, "speed_closed", 0),
                    GcodeLine(-1 * px_to_mm, ii * px_to_mm, "speed_pos", 0) >>
        indeces_shutter_closure == {j \in 0..(Len(switch) - 1) : switch[j + 1] = -1}
        last_closure == CHOOSE j \in indeces_shutter_closure :
                            \A k \in indeces_shutter_closure : k <= j
        st0 == [GCODE_array |-> r.GCODE_array \o moves, shutter_state |-> 0,
                speed |-> "2*speed"]
        st == IF indeces_shutter_closure /= {} /\ (\E j \in 1..Len(switch) : switch[j] /= 0)
              THEN walk(switch, ii, 0, Min2(last_closure, Len(pixel_line)), st0)
              ELSE st0
    IN  [r EXCEPT !.ii = ii + 1, !.row = Len(r.GCODE_array) + 1,
                  !.GCODE_array = st.GCODE_array, !.shutter_state = st.shutter_state]

\* the body of the loop over the rows, for row ii (from 0)
raster_row(r, data) ==
    LET ii == r.ii
        pixel_line == Append(data[ii + 1], 0)
        switch == shutter_switch_array(pixel_line)
        moves == << GcodeLine(-1 * px_to_mm, (ii - 1) * px_to_mm, "speed_closed", 0),
                    GcodeLine(-1 * px_to_mm, ii * px_to_mm, "speed_pos", 0) >>
        indeces_shutter_closure == {j \in 0..(Len(switch) - 1) : switch[j + 1] = -1}
        last_closure == CHOOSE j \in indeces_shutter_closure :
                            \A k \in indeces_shutter_closure : k <= j
        st0 == [GCODE_array |-> r.GCODE_array \o moves, shutter_state |-> 0,
                speed |-> "2*speed"]
        st == IF indeces_shutter_closure /= {} /\ (\E j \in 1..Len(switch) : switch[j] /= 0)
              THEN walk(switch, ii, 0, Min2(last_closure, Len(pixel_line)), st0)
              ELSE st0
    IN  [r EXCEPT !.ii = ii + 1, !.row = Len(r.GCODE_array) + 1,
                  !.GCODE_array = st.GCODE_array, !.shutter_state = st.shutter_state]

\* convert_image_to_path up to the loop over the rows
raster_begin(r, image) ==
    IF image.mode /= "1"
    THEN [r EXCEPT !.pc = "rows", !.data = convert(image.data),
                   !.GCODE_array = <<GcodeLine(0, 0, "2", 0)>>]
    ELSE Raise([r EXCEPT !.pc = "raised"], UnboundLocalError)

\* add_path and the return of GCODE_array
raster_end(r) == [r EXCEPT !.pc = "done"]

-----------------------------------------------------------------------------
(* The state machine *)

Cur ==
    [filename |-> filename, angle |-> angle, ind_rif |-> ind_rif,
     output_digits |-> output_digits,
     instructions |-> instructions, shutter_on |-> shutter_on,
     num_for |-> num_for, num_repeat |-> num_repeat,
     total_dwell_time |-> total_dwell_time, loaded_files |-> loaded_files,
     file_out |-> file_out, err |-> NoErr]

NoFile == [name |-> "", text |-> <<>>]

\* __init__(filename, ind_rif, angle, output_digits = digits)
InitWith(fn, ind, ang, digits) ==
    /\ filename = fn
    /\ angle = ang % 360
    /\ ind_rif = ind
    /\ output_digits = digits
    /\ instructions = <<>>
    /\ shutter_on = FALSE
    /\ num_for = 0
    /\ num_repeat = 0
    /\ total_dwell_time = 0
    /\ loaded_files = <<>>
    /\ file_out = NoFile
    /\ calls = 0
    /\ points_fed = 0
    /\ last = [op |-> "__init__", word |-> "", M |-> <<>>, err |-> NoErr]
    /\ pre = Cur

\* TrenchColumn(x_center, y_min, y_max, length = len)
ColumnInitWith(len) ==
    /\ length = len
    /\ trench_list = <<>>
    /\ digs = 0
    /\ dlast = [paths |-> {}, remove |-> <<>>, carved |-> <<>>, logged |-> FALSE, err |-> NoErr]
    /\ dpre = <<>>

DefaultLength == Some(1000)

\* Trench(block, delta_floor, safe_inner_turns), no toolpath requested yet
TrenchInitWith(block, delta, turns) ==
    /\ trench = NewTrench(block, delta, turns)
    /\ gen = Generator("idle", 0, <<>>)
    /\ runs = [started |-> 0, completed |-> 0]
    /\ tpre = [op |-> "__init__", trench |-> NewTrench(block, delta, turns),
               gen |-> Generator("idle", 0, <<>>)]

DefaultBlock == Rect(1020, 100)

\* a RasterImage and the image it is going to convert
RasterInitWith(image) ==
    /\ img = image
    /\ raster = [pc |-> "idle", ii |-> 0, row |-> 0, shutter_state |-> 0, data |-> <<>>,
                 GCODE_array |-> <<>>, err |-> NoErr]

NoImage == [mode |-> "L", data |-> <<>>]

Filenames == {None, Some("prog")}

Init == (\E fn \in Filenames : InitWith(fn, <<1, 1>>, 0, DefaultDigits))
        /\ ColumnInitWith(DefaultLength)
        /\ TrenchInitWith(DefaultBlock, DefaultDeltaFloor, DefaultTurns)
        /\ RasterInitWith(NoImage)

\* a call of operation op (word, M: its string and point arguments, if any) that returned r
CallM(op, word, M, r) ==
    /\ filename' = r.filename
    /\ angle' = r.angle
    /\ ind_rif' = r.ind_rif
    /\ output_digits' = r.output_digits
    /\ instructions' = r.instructions
    /\ shutter_on' = r.shutter_on
    /\ num_for' = r.num_for
    /\ num_repeat' = r.num_repeat
    /\ total_dwell_time' = r.total_dwell_time
    /\ loaded_files' = r.loaded_files
    /\ file_out' = r.file_out
    /\ calls' = calls + 1
    /\ last' = [op |-> op, word |-> word, M |-> M, err |-> r.err]
    /\ pre' = Cur
    /\ UNCHANGED <<column_vars, planner_vars, raster_vars>>

Call(op, word, r) == CallM(op, word, <<>>, r)

(* Inputs *)

FabLines == {"CAPABLE", "fire", "LINE1"}
ShutterStates == {"ON", "off", "HALF"}
LoopVars == {"i", "j"}
Programs == {"sub.pgm", "other.pgm"}
Origin == <<Some(Rat(0)), Some(Rat(0)), Some(Rat(0))>>
Positions == {<<None, Some(Rat(0)), Some(Rat(MM \div 10))>>, <<Some(Rat(0)), Some(Rat(0))>>}
Speeds == {Some(Rat(DefaultSpeedPos * MM)), Some(Rat(0))}

\* the points <<i-1, 0, 0, 10, bits[i]>> (mm, mm/s), the one at index bad with feed 0
MkPoints(bits, bad) ==
    [i \in 1..Len(bits) |-> <<(i - 1) * MM, 0, 0, IF i = bad THEN 0 ELSE 10 * MM, bits[i]>>]

BitSeqs(n) == UNION {[1..k -> {0, 1}] : k \in 0..n}

PointSeqs(n) == UNION {{MkPoints(b, k) : k \in 0..Len(b)} : b \in BitSeqs(n)}

(* Actions: lim bounds the number of calls *)

Header(lim) == calls < lim /\ \E l \in FabLines : Call("header", l, header(Cur, l))
Dvar(lim) == calls < lim /\ Call("dvar", "", dvar(Cur, <<"i", "j">>))
Comment(lim) == calls < lim /\ Call("comment", "", comment(Cur, "Modo: 0"))
Shutter(lim) == calls < lim /\ \E st \in ShutterStates : Call("shutter", st, shutter(Cur, st))
DwellOp(lim) == calls < lim /\ Call("dwell", "", dwell(Cur, short_pause))
SetHome(lim) ==
    calls < lim /\ \E pos \in {Origin} \cup Positions :
        CallM("set_home", "", <<pos>>, set_home(Cur, pos))
Homing(lim) == calls < lim /\ Call("homing", "", homing(Cur))
\* move_to(position, speed_pos); the call's arguments are kept in last.M
MoveToAt(lim, positions, speeds) ==
    calls < lim /\ \E pos \in positions, sp \in speeds :
        CallM("move_to", IF Len(pos) = 3 /\ sp[1][1] >= sp[1][2] THEN "valid" ELSE "invalid",
              <<pos, sp>>, move_to(Cur, pos, sp))

MoveTo(lim) == MoveToAt(lim, Positions, Speeds)
ForLoop(lim) == calls < lim /\ \E v \in LoopVars : Call("for_loop", v, for_loop(Cur, v, 3))
EndFor(lim) == calls < lim /\ \E v \in LoopVars : Call("end_for", v, end_for(Cur, v))
Rpt(lim) == calls < lim /\ Call("rpt", "", rpt(Cur, 6))
EndRpt(lim) == calls < lim /\ Call("endrpt", "", endrpt(Cur))
Tic(lim) == calls < lim /\ Call("tic", "", tic(Cur))
Toc(lim) == calls < lim /\ Call("toc", "", toc(Cur))
Load(lim) == calls < lim /\ \E f \in Programs : Call("load", f, load(Cur, f, None))
Farcall(lim) == calls < lim /\ \E f \in Programs : Call("farcall", f, farcall(Cur, f))
CompilePgm(lim) == calls < lim /\ Call("compile_pgm", "", compile_pgm(Cur))

RowPointSeqs == PointSeqs(MaxRow)
AllPointSeqs == PointSeqs(MaxPoints)

\* point_to_instruction on one of seqs, while at most total points were fed in all
PointToInstruction(lim, seqs, total) ==
    /\ calls < lim
    /\ \E M \in seqs :
          /\ points_fed + Len(M) <= total
          /\ points_fed' = points_fed + Len(M)
          /\ CallM("point_to_instruction", "", M, point_to_instruction(Cur, M))

NoPoints == UNCHANGED points_fed

\* every operation, in any order
Next ==
    \/ Header(MaxCalls) /\ NoPoints
    \/ Dvar(MaxCalls) /\ NoPoints
    \/ Comment(MaxCalls) /\ NoPoints
    \/ Shutter(MaxCalls) /\ NoPoints
    \/ DwellOp(MaxCalls) /\ NoPoints
    \/ SetHome(MaxCalls) /\ NoPoints
    \/ Homing(MaxCalls) /\ NoPoints
    \/ MoveTo(MaxCalls) /\ NoPoints
    \/ ForLoop(MaxCalls) /\ NoPoints
    \/ EndFor(MaxCalls) /\ NoPoints
    \/ Rpt(MaxCalls) /\ NoPoints
    \/ EndRpt(MaxCalls) /\ NoPoints
    \/ Tic(MaxCalls) /\ NoPoints
    \/ Toc(MaxCalls) /\ NoPoints
    \/ Load(MaxCalls) /\ NoPoints
    \/ Farcall(MaxCalls) /\ NoPoints
    \/ CompilePgm(MaxCalls) /\ NoPoints
    \/ PointToInstruction(MaxCalls, RowPointSeqs, MaxCalls * MaxRow)

Spec == Init /\ [][Next]_vars

\* the writing operations: shutter, positioning and point sequences
NextPoints ==
    \/ Shutter(MaxPointCalls) /\ NoPoints
    \/ MoveTo(MaxPointCalls) /\ NoPoints
    \/ PointToInstruction(MaxPointCalls, AllPointSeqs, MaxPoints)

InitPoints ==
    /\ InitWith(Some("prog"), <<1, 1>>, 0, DefaultDigits)
    /\ ColumnInitWith(DefaultLength)
    /\ TrenchInitWith(DefaultBlock, DefaultDeltaFloor, DefaultTurns)
    /\ RasterInitWith(NoImage)

SpecPoints == InitPoints /\ [][NextPoints]_vars

\* the nesting directives and the serialization
NextNest ==
    \/ ForLoop(MaxNestCalls) /\ NoPoints
    \/ EndFor(MaxNestCalls) /\ NoPoints
    \/ Rpt(MaxNestCalls) /\ NoPoints
    \/ EndRpt(MaxNestCalls) /\ NoPoints
    \/ CompilePgm(MaxNestCalls) /\ NoPoints

SpecNest == Init /\ [][NextNest]_vars

\* compile_pgm between operations that write every part of the compiler's state
NextSerialize ==
    \/ Shutter(MaxSerializeCalls) /\ NoPoints
    \/ DwellOp(MaxSerializeCalls) /\ NoPoints
    \/ ForLoop(MaxSerializeCalls) /\ NoPoints
    \/ EndFor(MaxSerializeCalls) /\ NoPoints
    \/ Rpt(MaxSerializeCalls) /\ NoPoints
    \/ CompilePgm(MaxSerializeCalls) /\ NoPoints

SpecSerialize == Init /\ [][NextSerialize]_vars

(* Compilers configured with a rotation, a refractive index and a precision *)

\* <<angle (degrees), ind_rif, output_digits>>
Configs ==
    {<<0, <<1, 1>>, DefaultDigits>>, <<90, <<3, 2>>, DefaultDigits>>,
     <<630, <<3, 2>>, 3>>, <<180, <<1, 1>>, 3>>}

\* the points (1, 2, 3), (-2, 0, 1) and (0, -1, -3) mm
ConfigCoords == << <<MM, 2 * MM, 3 * MM>>, <<-2 * MM, 0, MM>>, <<0, -MM, -3 * MM>> >>

\* feeds of 10 mm/s and 0.0004 mm/s
ConfigFeeds == {10 * MM, 400}

MkConfigPoints(feeds, bits) ==
    [i \in 1..Len(bits) |->
        <<ConfigCoords[i][1], ConfigCoords[i][2], ConfigCoords[i][3], feeds[i], bits[i]>>]

ConfigPointSeqs ==
    UNION {{MkConfigPoints(f, b) : f \in [1..k -> ConfigFeeds], b \in [1..k -> {0, 1}]} :
           k \in 0..MaxConfigRow}

ConfigPositions == {<<Some(Rat(ConfigCoords[1][1])), Some(Rat(ConfigCoords[1][2])),
                      Some(Rat(ConfigCoords[1][3]))>>}

ConfigSpeeds == {Some(Rat(f)) : f \in ConfigFeeds \cup {0}}

NextConfig ==
    \/ Shutter(MaxConfigCalls) /\ NoPoints
    \/ Homing(MaxConfigCalls) /\ NoPoints
    \/ MoveToAt(MaxConfigCalls, ConfigPositions, ConfigSpeeds) /\ NoPoints
    \/ PointToInstruction(MaxConfigCalls, ConfigPointSeqs, MaxConfigCalls * MaxConfigRow)

InitConfig == (\E cf \in Configs : InitWith(Some("prog"), cf[2], cf[1], cf[3]))
              /\ ColumnInitWith(DefaultLength)
              /\ TrenchInitWith(DefaultBlock, DefaultDeltaFloor, DefaultTurns)
              /\ RasterInitWith(NoImage)

SpecConfig == InitConfig /\ [][NextConfig]_vars

(* A trench column and the molds it is dug from *)

Column ==
    [length |-> length, trench_list |-> trench_list, digs |-> digs, logged |-> FALSE,
     err |-> NoErr]

\* sets of mold paths <<a, b>>: none; one straight across the middle; one rising across
\* the column; two; four that cover the column; one above the column; one along its top
MoldSets ==
    {{}, {<<100, 100>>}, {<<40, 160>>}, {<<60, 60>>, <<140, 140>>},
     {<<27, 27>>, <<81, 81>>, <<135, 135>>, <<189, 189>>}, {<<300, 300>>}, {<<190, 190>>}}

\* the lists of indices to remove
Removes == {<<>>, <<0, 1>>, <<1, 0>>, <<2, 0>>}

\* the types the engine gives an empty difference
EmptyTypes == {"Polygon", "GeometryCollection"}

Lengths == {DefaultLength, None}

\* the engine may start the ring of a part at any of its vertices; the model follows two
\* of them, the lower left one and the upper right one
RingStarts == {1, 3}

\* the number of parts of the difference whose ring the engine builds
Parts(c, paths) ==
    IF rect(c).geoms = <<>> \/ paths = {} THEN 0 ELSE Len(Blocks(rect(c), paths))

\* the trenches a _dig call appends, before it deletes any
Carved(c, r) == SubSeq(r.trench_list, Len(c.trench_list) + 1,
                       Len(c.trench_list) + Len(r.trench_list) - Len(c.trench_list))

Dig(lim) ==
    /\ digs < lim
    /\ \E paths \in MoldSets, remove \in Removes :
          \E starts \in [1..Parts(Column, paths) -> RingStarts],
             emptyType \in IF Parts(Column, paths) = 0 THEN EmptyTypes ELSE {"Polygon"} :
              LET g == difference(rect(Column), paths, starts, emptyType)
                  r == dig(Column, paths, remove, starts, emptyType)
                  grown == IF almost_equal(g, rect(Column)) \/ g.type = "Polygon"
                           THEN Column
                           ELSE append_trenches(Column, sorted(g.geoms), 1)
              IN  /\ trench_list' = r.trench_list
                  /\ digs' = digs + 1
                  /\ dlast' = [paths |-> paths, remove |-> remove,
                               carved |-> Carved(Column, grown), logged |-> r.logged,
                               err |-> r.err]
                  /\ dpre' = trench_list
                  /\ UNCHANGED length

NextTrench == Dig(MaxDigs) /\ UNCHANGED <<compiler_vars, planner_vars, raster_vars>>

InitTrench ==
    /\ InitWith(None, <<1, 1>>, 0, DefaultDigits)
    /\ \E len \in Lengths : ColumnInitWith(len)
    /\ TrenchInitWith(DefaultBlock, DefaultDeltaFloor, DefaultTurns)
    /\ RasterInitWith(NoImage)

SpecTrench == InitTrench /\ [][NextTrench]_vars

-----------------------------------------------------------------------------
(* Traversals of Trench.toolpath, one loop iteration at a time, on one     *)
(* Trench.                                                                 *)

\* blocks: squares and bars that erode to nothing after 1, 2, 3 and 7 steps of 1 um, a
\* dumbbell whose neck closes under erosion and one whose neck is closed by the
\* erosion of num_insets already
BlockShapes ==
    {Rect(2, 2), Rect(4, 4), Rect(20, 6), Rect(14, 30),
     Dumbbell(<<12, 12>>, <<10, 14>>, 6, 4), Dumbbell(<<12, 12>>, <<12, 12>>, 2, 4)}

DeltaFloors == {1, 2}
SafeTurns == {1, 3, 5}
HatchEmptyTypes == {"LineString", "GeometryCollection"}

StepTo(op, r) ==
    /\ trench' = r.trench
    /\ gen' = r.gen
    /\ tpre' = [op |-> op, trench |-> trench, gen |-> gen]

\* toolpath() and the first step of its generator
Begin(lim) ==
    /\ gen.pc \in {"idle", "done", "raised"}
    /\ runs.started < lim
    /\ StepTo("begin", toolpath_begin(trench))
    /\ runs' = [runs EXCEPT !.started = @ + 1]

Inset ==
    /\ gen.pc = "running"
    /\ gen.i < gen.n
    /\ StepTo("inset", toolpath_inset(trench, gen))
    /\ UNCHANGED runs

Hatch ==
    /\ gen.pc = "running"
    /\ gen.i = gen.n
    /\ gen.h < Len(gen.polygon_list)
    /\ \E emptyType \in IF is_empty(gen.polygon_list[gen.h + 1])
                         THEN HatchEmptyTypes ELSE {"GeometryCollection"} :
          StepTo("hatch", toolpath_hatch(trench, gen, emptyType))
    /\ UNCHANGED runs

Finish ==
    /\ gen.pc = "running"
    /\ gen.i = gen.n
    /\ gen.h = Len(gen.polygon_list)
    /\ StepTo("end", toolpath_end(trench, gen))
    /\ runs' = [runs EXCEPT !.completed = @ + 1]

OnlyPlanner == UNCHANGED <<compiler_vars, column_vars, raster_vars>>

NextToolpath ==
    \/ Begin(MaxRuns) /\ OnlyPlanner
    \/ Inset /\ OnlyPlanner
    \/ Hatch /\ OnlyPlanner
    \/ Finish /\ OnlyPlanner

InitToolpath ==
    /\ InitWith(None, <<1, 1>>, 0, DefaultDigits)
    /\ ColumnInitWith(DefaultLength)
    /\ \E block \in BlockShapes, delta \in DeltaFloors, turns \in SafeTurns :
          TrenchInitWith(block, delta, turns)
    /\ RasterInitWith(NoImage)

SpecToolpath == InitToolpath /\ [][NextToolpath]_vars

-----------------------------------------------------------------------------
(* One call of RasterImage.convert_image_to_path, one row at a time.       *)

Greys == {0, 255}

\* the images of h rows and w columns
Pictures(h, w) == [1..h -> [1..w -> Greys]]

Images ==
    {[mode |-> mode, data |-> data] :
        mode \in {"L", "1"},
        data \in UNION {Pictures(h, w) : h \in 1..MaxHeight, w \in 1..MaxWidth}}

Convert ==
    /\ raster.pc = "idle"
    /\ raster' = raster_begin(raster, img)
    /\ UNCHANGED img

Row ==
    /\ raster.pc = "rows"
    /\ raster.ii < Len(raster.data)
    /\ raster' = raster_row(raster, raster.data)
    /\ UNCHANGED img

Return ==
    /\ raster.pc = "rows"
    /\ raster.ii = Len(raster.data)
    /\ raster' = raster_end(raster)
    /\ UNCHANGED img

OnlyRaster == UNCHANGED <<compiler_vars, column_vars, planner_vars>>

NextRaster ==
    \/ Convert /\ OnlyRaster
    \/ Row /\ OnlyRaster
    \/ Return /\ OnlyRaster

InitRaster ==
    /\ InitWith(None, <<1, 1>>, 0, DefaultDigits)
    /\ ColumnInitWith(DefaultLength)
    /\ TrenchInitWith(DefaultBlock, DefaultDeltaFloor, DefaultTurns)
    /\ \E image \in Images : RasterInitWith(image)

SpecRaster == InitRaster /\ [][NextRaster]_vars

-----------------------------------------------------------------------------
(* Reading the instruction stream *)

\* what the call that took c0 to c1 appended
Emitted(c0, c1) == SubSeq(c1.instructions, Len(c0.instructions) + 1, Len(c1.instructions))

LastEmitted == SubSeq(instructions, Len(pre.instructions) + 1, Len(instructions))

Kind(i) ==
    CASE i.op = "LINEAR" -> "move"
      [] i = Dwell(long_pause) -> "long-dwell"
      [] i = Dwell(short_pause) -> "short-dwell"
      [] i = PsoOn -> "shutter-on"
      [] i = PsoOff -> "shutter-off"
      [] OTHER -> "other"

Kinds(E) == [k \in 1..Len(E) |-> Kind(E[k])]

CountOp(E, op) == Cardinality({k \in 1..Len(E) : E[k].op = op})
CountInstr(E, i) == Cardinality({k \in 1..Len(E) : E[k] = i})

RECURSIVE SumDwell(_)
SumDwell(E) ==
    IF E = <<>> THEN 0
    ELSE (IF Head(E).op = "DWELL" THEN Head(E).n ELSE 0) + SumDwell(Tail(E))

FeedOk(p) == p[4] >= 1

\* the number of points of M before the first one whose feed is rejected
Processed(M) ==
    IF \A i \in 1..Len(M) : FeedOk(M[i]) THEN Len(M)
    ELSE (CHOOSE i \in 1..Len(M) : ~FeedOk(M[i]) /\ \A j \in 1..(i - 1) : FeedOk(M[j])) - 1

\* the positioning instruction of point p under the compiler's transform
MoveOf(c, p) ==
    LET t == Transform(c, p)
    IN  Linear(format_args(c, Some(t[1]), Some(t[2]), Some(t[3]), Some(Rat(p[4]))).args)

PointKinds == {MkPoints(<<b>>, k)[1] : b \in {0, 1}, k \in {0, 1}}

-----------------------------------------------------------------------------
\* the claim's table, from point i of M on, the shutter being on or not
RECURSIVE TableStream(_, _, _, _)
TableStream(c, M, i, on) ==
    IF i > Len(M) \/ ~FeedOk(M[i]) THEN <<>>
    ELSE IF M[i][5] = 0 /\ ~on
         THEN <<MoveOf(c, M[i]), Dwell(long_pause)>> \o TableStream(c, M, i + 1, FALSE)
    ELSE IF M[i][5] = 0 /\ on
         THEN <<PsoOff, Dwell(short_pause)>> \o TableStream(c, M, i + 1, FALSE)
    ELSE IF M[i][5] = 1 /\ ~on
         THEN <<PsoOn, MoveOf(c, M[i])>> \o TableStream(c, M, i + 1, TRUE)
    ELSE <<MoveOf(c, M[i])>> \o TableStream(c, M, i + 1, TRUE)

Scenario == MkPoints(<<0, 1, 1, 0>>, 0)

ScenarioKinds ==
    <<"move", "long-dwell", "shutter-on", "move", "move", "shutter-off", "short-dwell">>

(* C1: point_to_instruction handles the points in order and emits, per     *)
(* point: bit 0 with the shutter off, the move and a long dwell; bit 0     *)
(* with the shutter on, shutter-off and a short dwell, no move; bit 1 with *)
(* the shutter off, shutter-on and the move, no dwell; bit 1 with the      *)
(* shutter on, the move alone.  The points (0,0,0,10,0), (1,0,0,10,1),     *)
(* (2,0,0,10,1), (3,0,0,10,0) on a fresh compiler give move, long dwell,   *)
(* shutter-on, move, move, shutter-off, short dwell.                       *)
C1_PointTable ==
    /\ last.op = "point_to_instruction" =>
          LastEmitted = TableStream(pre, last.M, 1, pre.shutter_on)
    /\ calls = 0 => Kinds(point_to_instruction(Cur, Scenario).instructions) = ScenarioKinds

C1_Witness ==
    /\ last.op = "point_to_instruction"
    /\ calls = 1
    /\ Kinds(instructions) = ScenarioKinds
    /\ [k \in 1..3 |-> instructions[<<1, 4, 5>>[k]].args[1]] = <<<<"X", 0>>, <<"X", MM>>, <<"X", 2 * MM>>>>

-----------------------------------------------------------------------------
\* the bit the shutter follows before point i: the previous point's, or the start state
BitBefore(M, i, on) == IF i = 1 THEN (IF on THEN 1 ELSE 0) ELSE M[i - 1][5]

Rising(M, on) == {i \in 1..Processed(M) : M[i][5] = 1 /\ BitBefore(M, i, on) = 0}
Falling(M, on) == {i \in 1..Processed(M) : M[i][5] = 0 /\ BitBefore(M, i, on) = 1}

(* C2: point_to_instruction toggles the shutter only at bit transitions:   *)
(* a point emits shutter-on exactly when its bit is 1 and the shutter is   *)
(* off, shutter-off exactly when its bit is 0 and the shutter is on, so a  *)
(* run of points with bit 1 opens the shutter once, not once per point.    *)
C2_ToggleAtTransitions ==
    /\ \A p \in PointKinds :
          LET r == point_step(Cur, p)
              E == Emitted(Cur, r)
          IN  Ok(r) =>
                /\ CountInstr(E, PsoOn) = (IF p[5] = 1 /\ ~shutter_on THEN 1 ELSE 0)
                /\ CountInstr(E, PsoOff) = (IF p[5] = 0 /\ shutter_on THEN 1 ELSE 0)
                /\ r.shutter_on = (p[5] = 1)
    /\ last.op = "point_to_instruction" =>
          LET M == last.M
              E == LastEmitted
          IN  /\ CountInstr(E, PsoOn) = Cardinality(Rising(M, pre.shutter_on))
              /\ CountInstr(E, PsoOff) = Cardinality(Falling(M, pre.shutter_on))
              /\ (~pre.shutter_on /\ M /= <<>>
                    /\ \A i \in 1..Len(M) : M[i][5] = 1 /\ FeedOk(M[i]))
                    => CountInstr(E, PsoOn) = 1 /\ CountOp(E, "LINEAR") = Len(M)

C2_Witness ==
    /\ last.op = "point_to_instruction"
    /\ ~pre.shutter_on
    /\ Kinds(LastEmitted) = <<"shutter-on", "move", "move">>

-----------------------------------------------------------------------------
(* C3, as claimed: in what point_to_instruction emits, every shutter-off   *)
(* is immediately followed by a short dwell and every shutter-on is        *)
(* immediately preceded by a dwell of the same call.                       *)

C3_DwellBrackets ==
    last.op = "point_to_instruction" =>
        \A k \in 1..Len(LastEmitted) :
            /\ LastEmitted[k] = PsoOff =>
                  k < Len(LastEmitted) /\ LastEmitted[k + 1] = Dwell(short_pause)
            /\ LastEmitted[k] = PsoOn => k > 1 /\ LastEmitted[k - 1].op = "DWELL"

(* C3, amended: every shutter-off is immediately followed by a short       *)
(* dwell; a shutter-on is immediately preceded by a dwell of the same call *)
(* unless it is the first instruction of the call, which it is exactly     *)
(* when the first point has bit 1 and the shutter is off at the call.      *)

C3_DwellBracketsAmended ==
    last.op = "point_to_instruction" =>
        LET M == last.M
            E == LastEmitted
        IN  /\ \A k \in 1..Len(E) :
                  /\ E[k] = PsoOff => k < Len(E) /\ E[k + 1] = Dwell(short_pause)
                  /\ E[k] = PsoOn => k = 1 \/ E[k - 1].op = "DWELL"
            /\ (E /= <<>> /\ E[1] = PsoOn)
                  <=> (Processed(M) >= 1 /\ M[1][5] = 1 /\ ~pre.shutter_on)

C3_Witness ==
    /\ last.op = "point_to_instruction"
    /\ \E k \in 3..Len(LastEmitted) :
          /\ LastEmitted[k] = PsoOn
          /\ LastEmitted[k - 1] = Dwell(short_pause)
          /\ LastEmitted[k - 2] = PsoOff

-----------------------------------------------------------------------------
(* C4: shutter(state) appends exactly one shutter instruction and flips    *)
(* the flag when the requested state differs from the current one, and     *)
(* otherwise appends nothing and changes nothing; calling it twice in a    *)
(* row with the same state does what calling it once does.                 *)

C4_ShutterIdempotent ==
    \A st \in ShutterStates :
        Upper(st) \in {"ON", "OFF"} =>
            LET want == (Upper(st) = "ON")
                r == shutter(Cur, st)
            IN  /\ want /= shutter_on =>
                      r = [Cur EXCEPT !.shutter_on = want,
                                      !.instructions = Append(@, IF want THEN PsoOn ELSE PsoOff)]
                /\ want = shutter_on => r = Cur
                /\ shutter(r, st) = r

C4_Witness ==
    /\ last.op = "shutter"
    /\ last.word = "ON"
    /\ pre.shutter_on
    /\ shutter_on
    /\ LastEmitted = <<>>
    /\ CountInstr(instructions, PsoOn) = 1

-----------------------------------------------------------------------------
(* C5, as claimed: move_to called while the shutter is on raises an error  *)
(* and emits no positioning instruction.                                   *)

-----------------------------------------------------------------------------
(* C6: the cumulative dwell time is the sum of the durations of the dwell  *)
(* instructions in the stream; a successful move_to adds one long pause    *)
(* to it, and in point_to_instruction a bit-0 move with the shutter off    *)
(* adds one long pause and a shutter closing one short pause.              *)

C6_DwellAccounting ==
    /\ total_dwell_time = SumDwell(instructions)
    /\ \A pos \in Positions, sp \in Speeds :
          LET r == move_to(Cur, pos, sp)
          IN  Ok(r) => r.total_dwell_time = total_dwell_time + long_pause
    /\ \A p \in PointKinds :
          LET r == point_step(Cur, p)
          IN  Ok(r) =>
                r.total_dwell_time = total_dwell_time +
                    (IF p[5] = 0 THEN (IF shutter_on THEN short_pause ELSE long_pause) ELSE 0)

C6_Witness ==
    /\ last.op = "point_to_instruction"
    /\ total_dwell_time = long_pause + short_pause
    /\ CountOp(instructions, "DWELL") = 2

-----------------------------------------------------------------------------
OpenFor(E) == CountOp(E, "FOR") - CountOp(E, "NEXT")
OpenRepeat(E) == CountOp(E, "REPEAT") - CountOp(E, "ENDREPEAT")

Missing(n, what) ==
    AssertionError(IF n = 1 THEN "Missing instruction" ELSE "Missing instructions", n, what)

(* C7: compile_pgm succeeds only when both nesting counters are 0; with n  *)
(* >= 1 FOR directives left open and the REPEAT blocks balanced it raises  *)
(* an error citing exactly n missing NEXT instructions, with n REPEAT      *)
(* directives left open it cites n missing END REPEAT instructions, and    *)
(* a failed call writes no program text.  (With no filename set, the       *)
(* filename assertion comes first.)                                        *)
C7_BalanceCheck ==
    last.op = "compile_pgm" =>
        /\ last.err = NoErr => (pre.num_for = 0 /\ pre.num_repeat = 0)
        /\ (pre.filename /= None /\ OpenRepeat(pre.instructions) = 0
              /\ OpenFor(pre.instructions) >= 1)
              => last.err = Missing(OpenFor(pre.instructions), "NEXT")
        /\ (pre.filename /= None /\ OpenRepeat(pre.instructions) >= 1)
              => last.err = Missing(OpenRepeat(pre.instructions), "END REPEAT")
        /\ last.err /= NoErr => (file_out = pre.file_out /\ filename = pre.filename)
        /\ last.err = NoErr => file_out.text = instructions

C7_Witness ==
    /\ last.op = "compile_pgm"
    /\ last.err = Missing(2, "NEXT")
    /\ file_out = NoFile

-----------------------------------------------------------------------------
(* C8, as claimed: in every reachable state num_for >= 0 and               *)
(* num_repeat >= 0, and the initial state has the shutter off and both     *)
(* counters 0.                                                             *)

C8_DepthsNonNegative ==
    /\ num_for >= 0
    /\ num_repeat >= 0
    /\ calls = 0 => (~shutter_on /\ num_for = 0 /\ num_repeat = 0)

(* C8, amended: the initial state has the shutter off and both counters 0; *)
(* the counters are signed: in every reachable state num_for is the number *)
(* of FOR directives in the stream minus the number of NEXT directives and *)
(* num_repeat the number of REPEAT minus the number of ENDREPEAT, so they  *)
(* are >= 0 only as long as no closing directive came without an open      *)
(* block.                                                                  *)

C8_DepthsSigned ==
    /\ calls = 0 => (~shutter_on /\ num_for = 0 /\ num_repeat = 0)
    /\ num_for = OpenFor(instructions)
    /\ num_repeat = OpenRepeat(instructions)

C8_Witness ==
    /\ last.op = "end_for"
    /\ num_for = -1
    /\ pre.num_for = 0

-----------------------------------------------------------------------------
\* the stack of open blocks after E, or <<"unbalanced">> once a closing directive fails
RECURSIVE OpenBlocks(_, _)
OpenBlocks(E, stack) ==
    IF E = <<>> THEN stack
    ELSE LET i == Head(E)
             top == stack[Len(stack)]
             rest == SubSeq(stack, 1, Len(stack) - 1)
         IN  IF i.op = "FOR" THEN OpenBlocks(Tail(E), Append(stack, <<"FOR", i.words[1]>>))
             ELSE IF i.op = "REPEAT" THEN OpenBlocks(Tail(E), Append(stack, <<"REPEAT", "">>))
             ELSE IF i.op = "NEXT"
                  THEN IF stack /= <<>> /\ top = <<"FOR", i.words[1]>>
                       THEN OpenBlocks(Tail(E), rest) ELSE <<"unbalanced">>
             ELSE IF i.op = "ENDREPEAT"
                  THEN IF stack /= <<>> /\ top = <<"REPEAT", "">>
                       THEN OpenBlocks(Tail(E), rest) ELSE <<"unbalanced">>
             ELSE OpenBlocks(Tail(E), stack)

Balanced(E) == OpenBlocks(E, <<>>) = <<>>

(* C9: every program compile_pgm accepts is balanced: each NEXT closes the *)
(* innermost open FOR and names its variable, each ENDREPEAT closes the    *)
(* innermost open block, a REPEAT, and no directive closes what is not     *)
(* open.                                                                   *)
C9_AcceptedIsBalanced ==
    (last.op = "compile_pgm" /\ last.err = NoErr) => Balanced(file_out.text)

-----------------------------------------------------------------------------
Recorded(c, name) == \E i \in 1..Len(c.loaded_files) : c.loaded_files[i] = Stem(name)

(* C10: farcall on a name no earlier load recorded raises an error naming  *)
(* the program and appends nothing; on a recorded name it appends a call   *)
(* instruction followed by a program-stop instruction and changes nothing  *)
(* else.                                                                   *)
C10_FarcallContract ==
    last.op = "farcall" =>
        IF Recorded(pre, last.word)
        THEN /\ last.err = NoErr
             /\ Cur = [pre EXCEPT !.instructions =
                          @ \o <<Instr("FARCALL", <<last.word>>, 0, <<>>),
                                 Instr("PROGRAM 0 STOP", <<>>, 0, <<>>)>>]
        ELSE /\ last.err.type = "AssertionError"
             /\ last.err.name = last.word
             /\ Cur = pre

-----------------------------------------------------------------------------
(* C11: load(name) appends a load instruction and records name among the   *)
(* loaded programs, a recorded name stays recorded through every later     *)
(* operation, and a farcall of a name an earlier load was called with      *)
(* succeeds.                                                               *)
C11_LoadEnablesFarcall ==
    /\ last.op = "load" =>
          /\ last.err = NoErr
          /\ LastEmitted = <<Instr("PROGRAM 0 LOAD", <<last.word>>, 0, <<>>)>>
          /\ Recorded(Cur, last.word)
    /\ \A f \in Programs : Recorded(pre, f) => Recorded(Cur, f)
    /\ (last.op = "farcall" /\ Recorded(pre, last.word)) => last.err = NoErr

-----------------------------------------------------------------------------
\* the value of field name ("X", "Y", "Z" or "F") of a positioning instruction, or <<>>
Field(i, name) ==
    IF \E a \in 1..Len(i.args) : i.args[a][1] = name
    THEN Some(i.args[CHOOSE a \in 1..Len(i.args) : i.args[a][1] = name][2])
    ELSE None

Moves(E) == {k \in 1..Len(E) : E[k].op = "LINEAR"}

ZeroFeedError == ValueError("Try to move with F = 0.0 mm/s.")

(* C12: no positioning instruction with a (near-)zero feed rate enters the *)
(* instruction stream: every F field in the stream is at least 1e-6, a     *)
(* move_to or a point carrying a feed below 1e-6 makes the formatting      *)
(* raise, and the F field written is the feed that was given, neither      *)
(* clamped nor replaced.                                                   *)
C12_NoZeroFeed ==
    /\ \A k \in Moves(instructions) :
          Field(instructions[k], "F") /= None => Field(instructions[k], "F")[1] >= 1
    /\ (last.op = "move_to" /\ Len(last.M[1]) = 3 /\ last.M[2][1][1] < 1)
          => last.err = ZeroFeedError
    /\ (last.op = "move_to" /\ last.err = NoErr)
          => Field(instructions[Len(instructions) - 1], "F") = Some(last.M[2][1][1])
    /\ last.op = "point_to_instruction" =>
          /\ Processed(last.M) < Len(last.M) => last.err = ZeroFeedError
          /\ \A k \in Moves(LastEmitted) :
                \E i \in 1..Len(last.M) : Field(LastEmitted[k], "F") = Some(last.M[i][4])

-----------------------------------------------------------------------------
(* C13: a zero-feed error produces no partial output: when                 *)
(* point_to_instruction or move_to raises on a feed below 1e-6, the        *)
(* instruction stream, the shutter flag and the cumulative dwell time are  *)
(* what they were before the call.                                         *)
C13_NoPartialOutput ==
    (last.op \in {"point_to_instruction", "move_to"} /\ last.err = ZeroFeedError) =>
        /\ instructions = pre.instructions
        /\ shutter_on = pre.shutter_on
        /\ total_dwell_time = pre.total_dwell_time

-----------------------------------------------------------------------------
IsPrefix(a, b) == Len(a) <= Len(b) /\ SubSeq(b, 1, Len(a)) = a

Operations ==
    {"header", "dvar", "comment", "shutter", "dwell", "set_home", "homing", "move_to",
     "for_loop", "end_for", "rpt", "endrpt", "tic", "toc", "load", "farcall",
     "point_to_instruction", "compile_pgm"}

(* C14: the instruction stream is append-only: for every operation of the  *)
(* compiler, whether it returns or raises, the stream before the call is a *)
(* prefix of the stream after it; nothing is removed, reordered or         *)
(* rewritten.                                                              *)
C14_AppendOnly ==
    /\ last.op \in Operations \cup {"__init__"}
    /\ IsPrefix(pre.instructions, instructions)
    /\ last.op = "compile_pgm" => instructions = pre.instructions

C14_Witness ==
    /\ last.op = "toc"
    /\ pre.instructions /= <<>>
    /\ Len(instructions) = Len(pre.instructions) + 3
    /\ instructions[1] = pre.instructions[1]

-----------------------------------------------------------------------------
RatEq(a, b) == a[1] * b[2] = b[1] * a[2]

\* the points of M (up to the first rejected feed) for which a move is emitted:
\* all but those that close the shutter
MovingPoints(M, on) ==
    SelectSeq([i \in 1..Processed(M) |-> <<M[i], BitBefore(M, i, on)>>],
              LAMBDA e : ~(e[1][5] = 0 /\ e[2] = 1))

\* the <<X, Y, Z>> fields of the moves of E, in order
MoveCoords(E) ==
    LET L == SelectSeq(E, LAMBDA i : i.op = "LINEAR")
    IN  [k \in 1..Len(L) |-> <<Field(L[k], "X"), Field(L[k], "Y"), Field(L[k], "Z")>>]

\* (x, y) rotated by deg degrees and z divided by the index ind, as written with digits
RotatedScaled(p, deg, ind, digits) ==
    <<Some(FormatNum(Rat(Cos(deg) * p[1] - Sin(deg) * p[2]), digits)),
      Some(FormatNum(Rat(Sin(deg) * p[1] + Cos(deg) * p[2]), digits)),
      Some(FormatNum(<<p[3] * ind[2], ind[1]>>, digits))>>

IdentityMatrix == [i \in 1..3 |-> [j \in 1..3 |-> IF i = j THEN <<1, 1>> ELSE <<0, 1>>]]

(* C15: with angle 0 and refractive index 1 the transform is the identity: *)
(* the matrix is the identity and point_to_instruction writes each point's *)
(* (x, y, z) as given; in general the matrix is scale(1, 1, 1/ind_rif)     *)
(* times rotation(angle): x and y are rotated by the angle and z is        *)
(* divided by the index.                                                   *)
C15_TransformIdentity ==
    /\ (angle = 0 /\ ind_rif = <<1, 1>>) =>
          /\ compute_t_matrix(Cur) = IdentityMatrix
          /\ last.op = "point_to_instruction" =>
                LET P == MovingPoints(last.M, pre.shutter_on)
                IN  MoveCoords(LastEmitted) =
                        [k \in 1..Len(P) |->
                            <<Some(FormatNum(Rat(P[k][1][1]), output_digits)),
                              Some(FormatNum(Rat(P[k][1][2]), output_digits)),
                              Some(FormatNum(Rat(P[k][1][3]), output_digits))>>]
    /\ \A i \in 1..Len(ConfigCoords) :
          LET p == ConfigCoords[i]
              t == Transform(Cur, p)
          IN  /\ RatEq(t[1], Rat(Cos(angle) * p[1] - Sin(angle) * p[2]))
              /\ RatEq(t[2], Rat(Sin(angle) * p[1] + Cos(angle) * p[2]))
              /\ RatEq(t[3], <<p[3] * ind_rif[2], ind_rif[1]>>)
    /\ last.op = "point_to_instruction" =>
          LET P == MovingPoints(last.M, pre.shutter_on)
          IN  MoveCoords(LastEmitted) =
                  [k \in 1..Len(P) |-> RotatedScaled(P[k][1], angle, ind_rif, output_digits)]

C15_Witness ==
    /\ last.op = "point_to_instruction"
    /\ angle = 0
    /\ ind_rif = <<1, 1>>
    /\ MoveCoords(LastEmitted) =
          << <<Some(ConfigCoords[1][1]), Some(ConfigCoords[1][2]), Some(ConfigCoords[1][3])>> >>

-----------------------------------------------------------------------------
\* the requested (x, y, z) left-multiplied by the compiler's matrix, as written
TransformedCoords(c, p) ==
    LET t == Transform(c, p)
    IN  <<Some(FormatNum(t[1], c.output_digits)), Some(FormatNum(t[2], c.output_digits)),
          Some(FormatNum(t[3], c.output_digits))>>

\* the numbers of a position [x, y, z] of move_to
Requested(pos) == <<pos[1][1][1], pos[2][1][1], pos[3][1][1]>>

(* C16: the transform is applied to every emitted point: every positioning *)
(* instruction, produced by point_to_instruction, move_to or homing,       *)
(* carries the requested (x, y, z) left-multiplied by the transform        *)
(* matrix, whatever the angle and the index.                               *)
C16_TransformEverywhere ==
    /\ last.op = "point_to_instruction" =>
          LET P == MovingPoints(last.M, pre.shutter_on)
          IN  MoveCoords(LastEmitted) = [k \in 1..Len(P) |-> TransformedCoords(pre, P[k][1])]
    /\ (last.op = "move_to" /\ last.err = NoErr) =>
          MoveCoords(LastEmitted) = <<TransformedCoords(pre, Requested(last.M[1]))>>
    /\ (last.op = "homing" /\ last.err = NoErr) =>
          MoveCoords(LastEmitted) = <<TransformedCoords(pre, <<0, 0, 0>>)>>

-----------------------------------------------------------------------------
\* s is in the order of the lowest y of the borders
AscendingYmin(s) == \A i, j \in 1..Len(s) : i < j => ymin(s[i]) <= ymin(s[j])

(* C17: after _dig the trench list is in the order of the lowest y of each *)
(* block's border: for all indices i < j the lowest y of trench i is at    *)
(* most that of trench j, so that index 0 is the lowest trench, whatever   *)
(* vertex each block's border ring starts at.                              *)
C17_SortedByLowestY ==
    /\ AscendingYmin(dlast.carved)
    /\ (digs >= 1 /\ dpre = <<>> /\ dlast.err = NoErr) => AscendingYmin(trench_list)

-----------------------------------------------------------------------------
\* the trenches of s that the _dig call number d constructed
CarvedBy(s, d) == SelectSeq(s, LAMBDA t : t.id[1] = d)

(* C18: a later _dig call overwrites the trench list: after any sequence   *)
(* of _dig calls the list holds only trenches carved by the most recent    *)
(* call, none from earlier calls, and it is empty when the most recent     *)
(* call found no trench.                                                   *)
C18_DigOverwrites ==
    digs >= 1 =>
        /\ CarvedBy(trench_list, digs) = trench_list
        /\ dlast.carved = <<>> => trench_list = <<>>

-----------------------------------------------------------------------------
Indices(remove) == {remove[k] : k \in 1..Len(remove)}

\* s without the elements at the 0-based indices of R, the others in their order
RECURSIVE Without(_, _, _)
Without(s, R, k) ==
    IF k > Len(s) THEN <<>>
    ELSE (IF (k - 1) \in R THEN <<>> ELSE <<s[k]>>) \o Without(s, R, k + 1)

(* C19: for a _dig that carves n sorted blocks and a list of distinct      *)
(* indices of 0..n-1 to remove, in any order, the resulting trench list is *)
(* the sorted list without the trenches at those indices, the others in    *)
(* their sorted order.                                                     *)
C19_RemoveByIndex ==
    (digs >= 1 /\ dlast.carved /= <<>>
       /\ Indices(dlast.remove) \subseteq 0..(Len(dlast.carved) - 1)) =>
        /\ dlast.err = NoErr
        /\ trench_list = Without(dlast.carved, Indices(dlast.remove), 1)

-----------------------------------------------------------------------------
\* the dilated paths leave nothing of the column's rectangle
Covers(paths) == length /= None /\ paths /= {} /\ Blocks(rect(Column), paths) = <<>>

(* C20: for mold paths whose dilated union covers the column's rectangle   *)
(* (the difference is the empty polygon), _dig completes without raising   *)
(* and yields an empty trench list.                                        *)
C20_CoveredYieldsNone ==
    (digs >= 1 /\ Covers(dlast.paths)) => (dlast.err = NoErr /\ trench_list = <<>>)

-----------------------------------------------------------------------------
\* no mold path cuts the column's rectangle: whatever the engine returns for the
\* difference is indistinguishable from the rectangle
Untouched(paths) ==
    \A starts \in [1..Parts(Column, paths) -> RingStarts], emptyType \in EmptyTypes :
        almost_equal(difference(rect(Column), paths, starts, emptyType), rect(Column))

(* C21: when no mold path intersects the column's rectangle (an empty mold *)
(* list and an unset length included), _dig logs the condition, raises     *)
(* nothing, constructs no Trench and leaves the column with an empty       *)
(* trench list.                                                            *)
C21_UntouchedYieldsNone ==
    (digs >= 1 /\ Untouched(dlast.paths)) =>
        /\ dlast.logged
        /\ dlast.err = NoErr
        /\ dlast.carved = <<>>
        /\ trench_list = <<>>

-----------------------------------------------------------------------------
\* the inset contours the current traversal has yielded
Insets == SelectSeq(gen.yielded, LAMBDA c : c.kind = "inset")

\* the inset loop of the current traversal has run all its iterations
InsetsDone == gen.pc \in {"running", "done"} /\ gen.i = gen.n

\* the current traversal can yield no further inset contour
InsetsOver == InsetsDone \/ gen.pc = "raised"

\* how many of p, p eroded by d, p eroded by 2d, ... are not empty
RECURSIVE Stages(_, _)
Stages(side, d) == IF Survives(side) THEN 1 + Stages(Shrink(side, d), d) ELSE 0

(* C22: for a convex block the number of inset contours toolpath yields    *)
(* before the hatch fill equals safe_inner_turns, for every block size and *)
(* every delta_floor, blocks that erode to nothing in fewer steps          *)
(* included.                                                               *)
C22_InsetsEqualTurns ==
    (IsConvex(trench.block) /\ InsetsDone) => Len(Insets) = trench.safe_inner_turns

(* C22, amended: for a convex block the number of inset contours toolpath  *)
(* yields is safe_inner_turns when the block and its first                 *)
(* safe_inner_turns - 1 erosions by delta_floor are not empty, and         *)
(* otherwise the number of those that are not empty, which is smaller.     *)
C22_InsetsAmended ==
    (IsConvex(trench.block) /\ InsetsOver) =>
        Len(Insets) = Min2(trench.safe_inner_turns,
                           Stages(trench.block.a, Abs(trench.delta_floor)))

C22_Witness ==
    /\ IsConvex(trench.block)
    /\ gen.pc = "done"
    /\ Len(Insets) >= 2
    /\ Len(Insets) < trench.safe_inner_turns

-----------------------------------------------------------------------------
(* C23: a traversal of toolpath ends without raising, whatever the block   *)
(* and num_insets: its inset loop never raises, because when erosion       *)
(* leaves an empty polygon the loop ends naturally, also when the queue    *)
(* becomes empty before num_insets iterations have run -- the loop never   *)
(* pops from an empty queue.                                               *)
C23_InsetLoopNeverRaises == ~(gen.pc = "raised" /\ tpre.op = "inset")

-----------------------------------------------------------------------------
\* the last step was an iteration of the inset loop that found a polygon in the queue
Popped == tpre.op = "inset" /\ tpre.gen.polygon_list /= <<>>

\* the polygon that iteration popped, if the queue is first-in first-out
First == Head(tpre.gen.polygon_list)

\* what the erosion of p contributes to the queue: its parts, or the empty polygon
Contribution(p) ==
    LET parts == Erode(p, Abs(tpre.trench.delta_floor))
    IN  IF parts = <<>> THEN <<EmptyShape>> ELSE parts

Hatches == SelectSeq(gen.yielded, LAMBDA c : c.kind = "hatch")

-----------------------------------------------------------------------------
\* the sum of the perimeters of the contours of s
RECURSIVE SumLengths(_)
SumLengths(s) == IF s = <<>> THEN 0 ELSE PolyLength(Head(s).poly) + SumLengths(Tail(s))

\* every traversal started so far has been walked to its end
AllFull == gen.pc = "done" /\ runs.completed = runs.started

(* C25: before any traversal of toolpath the wall length and the floor     *)
(* length are 0; after one full traversal the wall length is the block's   *)
(* perimeter and the floor length the sum of the perimeters of the inset   *)
(* contours yielded; the accumulators are not reset, so after k full       *)
(* traversals the wall length is the same and the floor length is k times  *)
(* that of one traversal.                                                  *)
C25_LengthsAccumulate ==
    /\ runs.started = 0 => (trench.wall_length = 0 /\ trench.floor_length = 0)
    /\ AllFull =>
          /\ trench.wall_length = PolyLength(trench.block)
          /\ trench.floor_length = runs.completed * SumLengths(Insets)

C25_Witness ==
    /\ AllFull
    /\ runs.completed = 2
    /\ Len(Insets) >= 2
    /\ trench.floor_length = 2 * SumLengths(Insets)
    /\ trench.floor_length > trench.wall_length

-----------------------------------------------------------------------------
\* the shutter-control instructions of the stream, in order
ShutterControls ==
    SelectSeq(Kinds(instructions), LAMBDA k : k \in {"shutter-on", "shutter-off"})

(* C26: after any sequence of operations the shutter flag agrees with the  *)
(* instruction stream: the flag is on exactly when the last shutter-control *)
(* instruction of the stream is a shutter-on (off when there is none), and *)
(* the shutter-control instructions alternate on, off, on, ... starting    *)
(* with on.                                                                *)
C26_FlagAgreesWithStream ==
    /\ shutter_on = (ShutterControls /= <<>> /\ Last(ShutterControls) = "shutter-on")
    /\ \A k \in 1..Len(ShutterControls) :
          ShutterControls[k] = IF k % 2 = 1 THEN "shutter-on" ELSE "shutter-off"

\* the shutter was opened and closed twice, once at least by a call that then failed
C26_Witness ==
    /\ Len(ShutterControls) >= 4
    /\ ~shutter_on
    /\ last.err /= NoErr

-----------------------------------------------------------------------------
\* the state of the shutter after the instructions of E, from the state on
RECURSIVE ShutterAfter(_, _)
ShutterAfter(E, on) ==
    IF E = <<>> THEN on
    ELSE LET k == Kind(Last(E))
         IN  IF k = "shutter-on" THEN TRUE
             ELSE IF k = "shutter-off" THEN FALSE
             ELSE ShutterAfter(Front(E), on)

\* no positioning instruction of E is executed with the shutter open, from the state on
MovesWithShutterOff(E, on) ==
    \A k \in 1..Len(E) :
        Kind(E[k]) = "move" => ~ShutterAfter(SubSeq(E, 1, k - 1), on)

(* C27: after every successful move_to, and homing, the shutter is off: if *)
(* it was on at the call a shutter-off instruction is appended before the  *)
(* positioning instruction, so that no positioning instruction of move_to  *)
(* is executed with the shutter on, and the call ends with the positioning *)
(* instruction followed by one long dwell.                                 *)
C27_MoveLeavesShutterOff ==
    (last.op \in {"move_to", "homing"} /\ last.err = NoErr) =>
        /\ ~shutter_on
        /\ MovesWithShutterOff(LastEmitted, pre.shutter_on)
        /\ pre.shutter_on => CountInstr(LastEmitted, PsoOff) = 1
        /\ Len(LastEmitted) >= 2
        /\ Kinds(SubSeq(LastEmitted, Len(LastEmitted) - 1, Len(LastEmitted)))
              = <<"move", "long-dwell">>
        /\ CountOp(LastEmitted, "LINEAR") = 1
        /\ total_dwell_time = pre.total_dwell_time + long_pause

\* homing called with the shutter on
C27_Witness ==
    /\ last.op = "homing"
    /\ last.err = NoErr
    /\ pre.shutter_on
    /\ Kinds(LastEmitted) = <<"other", "shutter-off", "move", "long-dwell">>

-----------------------------------------------------------------------------
\* the last call left the shutter flag, the nesting counters, the dwell total, the
\* loaded programs and the filename as they were
SameButStream ==
    /\ shutter_on = pre.shutter_on
    /\ num_for = pre.num_for
    /\ num_repeat = pre.num_repeat
    /\ total_dwell_time = pre.total_dwell_time
    /\ loaded_files = pre.loaded_files
    /\ filename = pre.filename

(* C28: set_home called while the shutter is on, or with a position that   *)
(* has not exactly 3 components, fails and leaves the instruction stream,  *)
(* the shutter flag, the nesting counters and the dwell total unchanged;   *)
(* called with the shutter off it appends exactly one G92 instruction and  *)
(* changes nothing else.                                                   *)
C28_SetHomeContract ==
    last.op = "set_home" =>
        /\ SameButStream
        /\ (pre.shutter_on \/ Len(last.M[1]) /= 3) =>
              (last.err.type = "AssertionError" /\ instructions = pre.instructions)
        /\ (~pre.shutter_on /\ Len(last.M[1]) = 3) =>
              /\ last.err = NoErr
              /\ Len(LastEmitted) = 1
              /\ LastEmitted[1].op = "G92"
              /\ instructions = Append(pre.instructions, LastEmitted[1])

\* set_home refused because the shutter is on, after something was emitted
C28_Witness ==
    /\ last.op = "set_home"
    /\ pre.shutter_on
    /\ Len(last.M[1]) = 3
    /\ last.err /= NoErr
    /\ instructions = pre.instructions
    /\ instructions /= <<>>

-----------------------------------------------------------------------------
(* C29: compile_pgm leaves the compiler's state as it is: the instruction  *)
(* stream, the shutter flag, the nesting counters, the dwell total and the *)
(* loaded programs are the same after the call as before, whether it       *)
(* succeeds or fails; it succeeds exactly when the filename is set and     *)
(* both counters are zero, the shutter being on or off; and called again   *)
(* after more operations it writes the whole stream again, the extension   *)
(* .pgm being appended to the filename at most once.                       *)
C29_SerializeFrame ==
    last.op = "compile_pgm" =>
        /\ instructions = pre.instructions
        /\ shutter_on = pre.shutter_on
        /\ num_for = pre.num_for
        /\ num_repeat = pre.num_repeat
        /\ total_dwell_time = pre.total_dwell_time
        /\ loaded_files = pre.loaded_files
        /\ (last.err = NoErr) <=>
              (pre.filename /= None /\ pre.num_for = 0 /\ pre.num_repeat = 0)
        /\ last.err = NoErr =>
              /\ file_out.text = instructions
              /\ file_out.name = "prog.pgm"
              /\ filename = Some("prog.pgm")
        /\ last.err /= NoErr =>
              /\ file_out = pre.file_out
              /\ filename = pre.filename

\* a second compile_pgm, after the stream has grown and with the shutter on
C29_Witness ==
    /\ last.op = "compile_pgm"
    /\ last.err = NoErr
    /\ shutter_on
    /\ pre.file_out.name = "prog.pgm"
    /\ Len(pre.file_out.text) < Len(file_out.text)

-----------------------------------------------------------------------------
\* the lines of GCODE_array written for the row processed last
RowLines == SubSeq(raster.GCODE_array, raster.row, Len(raster.GCODE_array))

\* those after the two positioning moves
RowPoints == SubSeq(RowLines, 3, Len(RowLines))

\* the number of runs of white pixels in a row of the black-and-white data
WhiteRuns(line) ==
    Cardinality({j \in 1..Len(line) : line[j] = 1 /\ (j = 1 \/ line[j - 1] = 0)})

(* C30: in convert_image_to_path, for every row of every image, the        *)
(* shutter state tracked along the row's pixel transitions is 0 when the   *)
(* row is finished: a final black pixel being appended, every opening      *)
(* transition is followed by a closing one, the points of the row after    *)
(* its two positioning moves carry the shutter bits 0, 1, 0, 1, ..., their *)
(* number is even, and the two positioning moves carry the shutter bit 0.  *)
C30_RowEndsClosed ==
    raster.ii >= 1 =>
        /\ raster.shutter_state = 0
        /\ Len(RowLines) >= 2
        /\ RowLines[1].s = 0
        /\ RowLines[2].s = 0
        /\ Len(RowPoints) % 2 = 0
        /\ Len(RowPoints) = 2 * WhiteRuns(raster.data[raster.ii])
        /\ \A k \in 1..Len(RowPoints) : RowPoints[k].s = (k + 1) % 2

\* the second row of an image has two runs of white pixels, the last at the border
C30_Witness ==
    /\ raster.ii = 2
    /\ Len(RowPoints) = 4
    /\ raster.data[2][Len(raster.data[2])] = 1
    /\ raster.shutter_state = 0

====
